---- MODULE Spec2Model ----
(***************************************************************************)
(* envfs: a FUSE filesystem that answers lookup(name) with a symlink to    *)
(* the executable the calling process would find on its own PATH.          *)
(*                                                                         *)
(* The module models src/src/fs.rs (EnvFs, the resolution functions) and   *)
(* the vendored concurrent-hashmap (Table, ConcHashMap) that stores the    *)
(* inodes.                                                                 *)
(***************************************************************************)
EXTENDS Integers, Sequences, FiniteSets, TLC

(***************************************************************************)
(* Option<T>                                                               *)
(***************************************************************************)
None == [some |-> FALSE]

Some(x) == [some |-> TRUE, val |-> x]

Max(a, b) == IF a >= b THEN a ELSE b

(***************************************************************************)
(* Bounds of the model.                                                    *)
(***************************************************************************)
\* u64 inode numbers are the residues 0 .. InoLimit-1: InoLimit stands for
\* 2^64, so that the wrap of InodeCounter.next_number is reached.
InoLimit == 4

\* The number of inode numbers a behaviour allocates.
MaxIssued == 6

\* Number of FUSE worker threads (max(num_cpus / 2, 1) in the program).
NumWorkers == 2

\* readdir is delivered with an offset in 0 .. MaxOffset.
MaxOffset == 2

\* forget(ino, nlookup) is delivered with nlookup in 0 .. MaxForget.
MaxForget == 1

(***************************************************************************)
(* vendor/concurrent-hashmap/src/table.rs                                  *)
(*                                                                         *)
(* A hash value (u64) is kept as its two fields the code reads: hi, the    *)
(* top bits that choose the partition (hash >> table_shift), and lo, the   *)
(* low 48 bits (hash & HASH_MASK) that choose the bucket.  A word of the   *)
(* `hashes` array is kept as its PRESENT bit, its TOMBSTONE bit and its    *)
(* low 48 bits.                                                            *)
(***************************************************************************)
MIN_CAPACITY == 32

\* hashes are allocated zeroed
ZeroWord == [present |-> FALSE, tombstone |-> FALSE, lo |-> 0]

TOMBSTONE == [present |-> FALSE, tombstone |-> TRUE, lo |-> 0]

PRESENT(lo) == [present |-> TRUE, tombstone |-> FALSE, lo |-> lo]

\* keys and values are allocated uninitialised; a bucket that is not present
\* is never read, so all such buckets hold this filler.
UninitKey == -1

UninitValue == [uninit |-> TRUE]

RECURSIVE next_power_of_two_from(_, _)
next_power_of_two_from(n, p) ==
    IF p >= n THEN p ELSE next_power_of_two_from(n, p + p)

next_power_of_two(n) == next_power_of_two_from(n, 1)

Table_new(capacity) ==
    LET cap == IF capacity = 0 THEN 0 ELSE next_power_of_two(capacity)
    IN  [ capacity |-> cap,
          len      |-> 0,
          hashes   |-> [i \in 0 .. cap - 1 |-> ZeroWord],
          keys     |-> [i \in 0 .. cap - 1 |-> UninitKey],
          values   |-> [i \in 0 .. cap - 1 |-> UninitValue] ]

is_present(t, idx) == t.hashes[idx].present

is_deleted(t, idx) == ~is_present(t, idx) /\ t.hashes[idx].tombstone

RECURSIVE Table_lookup_probe(_, _, _, _)
Table_lookup_probe(t, key, i, j) ==
    IF is_present(t, i) /\ t.keys[i] = key
    THEN Some(i)
    ELSE IF ~is_present(t, i) /\ ~is_deleted(t, i)
    THEN None
    ELSE IF i = t.capacity - 1
    THEN None
    ELSE Table_lookup_probe(t, key, (i + j + 1) % t.capacity, j + 1)

Table_lookup(t, hash, key) ==
    IF t.capacity = 0
    THEN None
    ELSE Table_lookup_probe(t, key, hash.lo % t.capacity, 0)

put_at_empty(t, idx, key, value, hash) ==
    [t EXCEPT !.hashes[idx] = PRESENT(hash.lo),
              !.keys[idx]   = key,
              !.values[idx] = value]

\* The `update` closures of the callers: insert swaps the value in and returns
\* the old one ("swap"); resize leaves the bucket alone ("keep"); upsert
\* calls its updater on the old value, which is |count| *count += 1 in every
\* caller ("increment").
update_bucket(t, idx, value, update) ==
    IF update = "swap"
    THEN [table |-> [t EXCEPT !.values[idx] = value], ret |-> Some(t.values[idx])]
    ELSE IF update = "increment"
    THEN [table |-> [t EXCEPT !.values[idx] = @ + 1], ret |-> Some(UninitValue)]
    ELSE [table |-> t, ret |-> Some(UninitValue)]

\* The inner loop of put: the outcome, or full when the probe reached the
\* last bucket.
RECURSIVE Table_put_probe(_, _, _, _, _, _, _)
Table_put_probe(t, key, value, hash, update, i, j) ==
    IF ~is_present(t, i)
    THEN [ full  |-> FALSE,
           table |-> [put_at_empty(t, i, key, value, hash) EXCEPT !.len = t.len + 1],
           ret   |-> None ]
    ELSE IF t.keys[i] = key
    THEN [full |-> FALSE] @@ update_bucket(t, i, value, update)
    ELSE IF i = t.capacity - 1
    THEN [full |-> TRUE, table |-> t, ret |-> None]
    ELSE Table_put_probe(t, key, value, hash, update, (i + j + 1) % t.capacity, j + 1)

RECURSIVE Table_put_loop(_, _, _, _, _)
RECURSIVE Table_rehash(_, _, _, _)

Table_resize(t) ==
    LET new_capacity == Max(t.capacity + t.capacity, MIN_CAPACITY)
    IN  Table_rehash(t, Table_new(new_capacity), 0, 0)

Table_put_loop(t, key, value, hash, update) ==
    LET r == Table_put_probe(t, key, value, hash, update, hash.lo % t.capacity, 0)
    IN  IF r.full
        THEN Table_put_loop(Table_resize(t), key, value, hash, update)
        ELSE [table |-> r.table, ret |-> r.ret]

Table_put(t, key, value, hash, update) ==
    Table_put_loop(IF t.capacity = 0 THEN Table_resize(t) ELSE t,
                   key, value, hash, update)

\* resize's foreach_present_idx: buckets in index order, until len present
\* buckets were seen; each is put into the new table under its stored hash
\* (whose bit 60, PRESENT, reads as hi = 1 and is masked off by put).
Table_rehash(t, new_table, i, seen) ==
    IF i >= t.capacity \/ seen = t.len
    THEN new_table
    ELSE IF is_present(t, i)
    THEN Table_rehash(t,
                      Table_put(new_table, t.keys[i], t.values[i],
                                [hi |-> 1, lo |-> t.hashes[i].lo], "keep").table,
                      i + 1, seen + 1)
    ELSE Table_rehash(t, new_table, i + 1, seen)

\* Table_remove as it would be if it zeroed the hash word of the bucket.
Table_remove_to_empty(t, hash, key) ==
    LET found == Table_lookup(t, hash, key)
    IN  IF ~found.some
        THEN [table |-> t, ret |-> None]
        ELSE [ table |-> [t EXCEPT !.hashes[found.val] = ZeroWord,
                                   !.keys[found.val]   = UninitKey,
                                   !.values[found.val] = UninitValue,
                                   !.len               = t.len - 1],
               ret   |-> Some(t.values[found.val]) ]

Table_remove(t, hash, key) ==
    LET found == Table_lookup(t, hash, key)
    IN  IF ~found.some
        THEN [table |-> t, ret |-> None]
        ELSE [ table |-> [t EXCEPT !.hashes[found.val] = TOMBSTONE,
                                   !.keys[found.val]   = UninitKey,
                                   !.values[found.val] = UninitValue,
                                   !.len               = t.len - 1],
               ret   |-> Some(t.values[found.val]) ]

\* Table::clear as it would be if it only reset len.
Table_clear_len_only(t) == [t EXCEPT !.len = 0]

Table_clear(t) ==
    [t EXCEPT !.hashes = [i \in 0 .. t.capacity - 1 |-> ZeroWord],
              !.keys   = [i \in 0 .. t.capacity - 1 |-> UninitKey],
              !.values = [i \in 0 .. t.capacity - 1 |-> UninitValue],
              !.len    = 0]

(***************************************************************************)
(* vendor/concurrent-hashmap/src/map.rs                                    *)
(***************************************************************************)
\* Options::default().concurrency
DefaultConcurrency == 16

\* ConcHashMap::new() with the hasher a RandomState drew: capacity 0 gives
\* reserve = 0, so every partition starts as Table::new(0).
ConcHashMap_new(hasher_factory) ==
    LET partitions == next_power_of_two(DefaultConcurrency)
    IN  [ tables         |-> [p \in 0 .. partitions - 1 |-> Table_new(0)],
          hasher_factory |-> hasher_factory,
          table_mask     |-> partitions - 1 ]

\* (hash >> table_shift) & table_mask, the mask being partitions - 1
table_for(map, hash) == hash.hi % (map.table_mask + 1)

(***************************************************************************)
(* Result<T>                                                               *)
(***************************************************************************)
Err == [ok |-> FALSE]

Ok(x) == [ok |-> TRUE, val |-> x]

(***************************************************************************)
(* What a request handler can read of the world outside the daemon: the    *)
(* requesting process under /proc and the directories it names.            *)
(*                                                                         *)
(*   environ  Err, or the records of /proc/<pid>/environ; a record is      *)
(*            [key, eq, val]: the bytes before the first '=', whether      *)
(*            there is a '=', and the bytes after it as a sequence of      *)
(*            directory names and ":" separators                           *)
(*   syscall  Err, or the columns of /proc/<pid>/syscall; a column is      *)
(*            [num, val]: whether it parses as a number, and the number    *)
(*   mem      address |-> Err, or the records of the environment block     *)
(*            that the NULL-terminated pointer vector at the address names *)
(*   dirs     directory |-> [nlink, exec, served]: the (u32) link count    *)
(*            its lstat reports, the names access(X_OK) succeeds for in    *)
(*            it, and whether a mountpoint of this filesystem is a prefix  *)
(*            of it; lstat fails for every other directory                 *)
(***************************************************************************)
FUSE_ROOT_ID == 1

\* 0xc7653a76, as its high and low 16 bits
ENVFS_MAGIC == <<51045, 14966>>

\* libc::SYS_* on x86_64
SYS_open == 2

SYS_openat == 257

SYS_execve == 59

PathJoin(dir, name) == [dir |-> dir, name |-> name]

\* path.symlink_metadata()
symlink_metadata(world, path) ==
    IF path \in DOMAIN world.dirs THEN Ok(world.dirs[path]) ELSE Err

\* unistd::access(full_path, X_OK).is_ok()
access_X_OK(world, full_path) ==
    /\ full_path.dir \in DOMAIN world.dirs
    /\ full_path.name \in world.dirs[full_path.dir].exec

\* _which: ret is the function's result, accessed the paths it called
\* access() on.
_which(world, path, exe_name) ==
    LET stat      == symlink_metadata(world, path)
        skip_path == IF stat.ok THEN stat.val.nlink = ENVFS_MAGIC ELSE TRUE
        full_path == PathJoin(path, exe_name)
    IN  IF skip_path
        THEN [ret |-> None, accessed |-> {}]
        ELSE IF access_X_OK(world, full_path)
        THEN [ret |-> Some(full_path), accessed |-> {full_path}]
        ELSE [ret |-> None, accessed |-> {full_path}]

\* dirs.filter_map(|dir| _which(dir, exe_name)).next(): the iterator is lazy,
\* directories after the first hit are not visited.  tried is the sequence
\* of directories _which was called on, in the order of the calls.
RECURSIVE first_hit(_, _, _, _)
first_hit(world, dirs, exe_name, i) ==
    IF i > Len(dirs)
    THEN [ret |-> None, accessed |-> {}, tried |-> << >>]
    ELSE LET here == _which(world, dirs[i], exe_name)
         IN  IF here.ret.some
             THEN [ret |-> here.ret, accessed |-> here.accessed, tried |-> <<dirs[i]>>]
             ELSE LET rest == first_hit(world, dirs, exe_name, i + 1)
                  IN  [ ret      |-> rest.ret,
                        accessed |-> here.accessed \cup rest.accessed,
                        tried    |-> <<dirs[i]>> \o rest.tried ]

\* env::split_paths: the segments between the ":" separators, empty ones kept
RECURSIVE split_paths_from(_, _, _)
split_paths_from(val, i, cur) ==
    IF i > Len(val)
    THEN <<cur>>
    ELSE IF val[i] = ":"
    THEN <<cur>> \o split_paths_from(val, i + 1, "")
    ELSE split_paths_from(val, i + 1, val[i])

split_paths(val) == split_paths_from(val, 1, "")

Executable(path, fallback) == [path |-> path, fallback |-> fallback]

which(world, path_env, exe_name, fallback_paths) ==
    LET fb           == first_hit(world, fallback_paths, exe_name, 1)
        fallback_exe == IF fb.ret.some
                        THEN Some(Executable(fb.ret.val, TRUE))
                        ELSE None
        hit          == first_hit(world, split_paths(path_env), exe_name, 1)
        exe          == IF hit.ret.some
                        THEN Some(Executable(hit.ret.val, fallback_exe.some))
                        ELSE None
    IN  [ ret      |-> IF exe.some THEN exe ELSE fallback_exe,
          accessed |-> fb.accessed \cup hit.accessed,
          tried    |-> [i \in 1 .. Len(fb.tried) |->
                           [list |-> "fallback_paths", dir |-> fb.tried[i]]] \o
                       [i \in 1 .. Len(hit.tried) |->
                           [list |-> "path_env", dir |-> hit.tried[i]]] ]

\* The HashMap collected from (key, value) pairs: a later pair replaces an
\* earlier one of the same key.
RECURSIVE collect_env(_, _, _)
collect_env(records, keep_without_eq, i) ==
    IF i = 0
    THEN << >>
    ELSE LET r    == records[i]
             rest == collect_env(records, keep_without_eq, i - 1)
         IN  IF r.eq
             THEN (r.key :> r.val) @@ rest
             ELSE IF keep_without_eq
             THEN (r.key :> << >>) @@ rest
             ELSE rest

\* read_environment: records without '=' are dropped
read_environment(world) ==
    IF world.environ.ok
    THEN Ok(collect_env(world.environ.val, FALSE, Len(world.environ.val)))
    ELSE Err

\* get_syscall_args: every column must parse
get_syscall_args(world) ==
    IF /\ world.syscall.ok
       /\ \A i \in 1 .. Len(world.syscall.val) : world.syscall.val[i].num
    THEN Ok([i \in 1 .. Len(world.syscall.val) |-> world.syscall.val[i].val])
    ELSE Err

\* get_env_from_mem: a record without '=' is kept with an empty value
get_env_from_mem(world, envp) ==
    IF envp \in DOMAIN world.mem /\ world.mem[envp].ok
    THEN Ok(collect_env(world.mem[envp].val, TRUE, Len(world.mem[envp].val)))
    ELSE Err

\* resolve_environ as it would be if it searched the fallback directories
\* when the environment defines no PATH.
resolve_environ_fallbacks_without_path(world, env, name, fallback_paths) ==
    IF "PATH" \in DOMAIN env
    THEN which(world, env["PATH"], name, fallback_paths)
    ELSE which(world, << >>, name, fallback_paths)

\* The tail of resolve_target: the PATH of /proc/<pid>/environ, then the
\* fallback directories.
resolve_environ(world, env, name, fallback_paths) ==
    IF "PATH" \in DOMAIN env
    THEN which(world, env["PATH"], name, fallback_paths)
    ELSE [ret |-> None, accessed |-> {}]

\* resolve_execve as it would be if it kept to the PATH of environ.
resolve_execve_old_path(world, env, args, name, fallback_paths) ==
    resolve_environ(world, env, name, fallback_paths)

\* resolve_execve as it would be if it returned None when the new
\* environment cannot be read or the search of its PATH finds nothing.
resolve_execve_without_fall_through(world, env, args, name, fallback_paths) ==
    LET mem_env == get_env_from_mem(world, args[4])
    IN  IF mem_env.ok /\ "PATH" \in DOMAIN mem_env.val
        THEN which(world, mem_env.val["PATH"], name, << >>)
        ELSE [ret |-> None, accessed |-> {}]

\* The execve branch of resolve_target (args has at least 4 elements).
resolve_execve(world, env, args, name, fallback_paths) ==
    LET mem_env == get_env_from_mem(world, args[4])
    IN  IF mem_env.ok
        THEN IF "PATH" \in DOMAIN mem_env.val
             THEN LET found == which(world, mem_env.val["PATH"], name, << >>)
                  IN  IF found.ret.some
                      THEN found
                      ELSE LET rest == resolve_environ(world, env, name, fallback_paths)
                           IN  [ ret      |-> rest.ret,
                                 accessed |-> found.accessed \cup rest.accessed ]
             ELSE [ret |-> None, accessed |-> {}]
        ELSE resolve_environ(world, env, name, fallback_paths)

\* resolve_target as it would be if it allowed every syscall.
resolve_target_allows_all(world, name, fallback_paths) ==
    LET env  == read_environment(world)
        args == get_syscall_args(world)
    IN  IF ~env.ok \/ ~args.ok
        THEN [ret |-> None, accessed |-> {}]
        ELSE IF Len(args.val) = 0
        THEN [ret |-> None, accessed |-> {}]
        ELSE IF args.val[1] = SYS_execve
        THEN IF Len(args.val) < 4
             THEN [ret |-> None, accessed |-> {}]
             ELSE resolve_execve(world, env.val, args.val, name, fallback_paths)
        ELSE resolve_environ(world, env.val, name, fallback_paths)

\* resolve_target as it would be if it searched the PATH of environ when
\* the syscall file cannot be read or parsed.
resolve_target_without_syscall(world, name, fallback_paths) ==
    LET env  == read_environment(world)
        args == get_syscall_args(world)
    IN  IF ~env.ok
        THEN [ret |-> None, accessed |-> {}]
        ELSE IF ~args.ok
        THEN resolve_environ(world, env.val, name, fallback_paths)
        ELSE IF Len(args.val) = 0
        THEN [ret |-> None, accessed |-> {}]
        ELSE IF /\ args.val[1] # SYS_open
                /\ args.val[1] # SYS_openat
                /\ args.val[1] # SYS_execve
                /\ "ENVFS_RESOLVE_ALWAYS" \notin DOMAIN env.val
        THEN [ret |-> None, accessed |-> {}]
        ELSE IF args.val[1] = SYS_execve
        THEN IF Len(args.val) < 4
             THEN [ret |-> None, accessed |-> {}]
             ELSE resolve_execve(world, env.val, args.val, name, fallback_paths)
        ELSE resolve_environ(world, env.val, name, fallback_paths)

\* resolve_target(pid, name, fallback_paths); args[1] is the code's args[0]
resolve_target(world, name, fallback_paths) ==
    LET env  == read_environment(world)
        args == get_syscall_args(world)
    IN  IF ~env.ok
        THEN [ret |-> None, accessed |-> {}]
        ELSE IF ~args.ok
        THEN [ret |-> None, accessed |-> {}]
        ELSE IF Len(args.val) = 0
        THEN [ret |-> None, accessed |-> {}]
        ELSE IF /\ args.val[1] # SYS_open
                /\ args.val[1] # SYS_openat
                /\ args.val[1] # SYS_execve
                /\ "ENVFS_RESOLVE_ALWAYS" \notin DOMAIN env.val
        THEN [ret |-> None, accessed |-> {}]
        ELSE IF args.val[1] = SYS_execve
        THEN IF Len(args.val) < 4
             THEN [ret |-> None, accessed |-> {}]
             ELSE resolve_execve(world, env.val, args.val, name, fallback_paths)
        ELSE resolve_environ(world, env.val, name, fallback_paths)

(***************************************************************************)
(* ConcHashMap<u64, Arc<Inode>>: the operations EnvFs calls.  Each takes   *)
(* the lock of the key's partition for its whole duration.                 *)
(***************************************************************************)
hash(map, key) == map.hasher_factory[key]

find(map, key) ==
    LET h     == hash(map, key)
        table == map.tables[table_for(map, h)]
        idx   == Table_lookup(table, h, key)
    IN  IF idx.some THEN Some(table.values[idx.val]) ELSE None

insert(map, key, value) ==
    LET h == hash(map, key)
        p == table_for(map, h)
        r == Table_put(map.tables[p], key, value, h, "swap")
    IN  [map |-> [map EXCEPT !.tables[p] = r.table], ret |-> r.ret]

remove(map, key) ==
    LET h == hash(map, key)
        p == table_for(map, h)
        r == Table_remove(map.tables[p], h, key)
    IN  [map |-> [map EXCEPT !.tables[p] = r.table], ret |-> r.ret]

\* upsert returns nothing
upsert(map, key, value, updater) ==
    LET h == hash(map, key)
        p == table_for(map, h)
        r == Table_put(map.tables[p], key, value, h, updater)
    IN  [map EXCEPT !.tables[p] = r.table]

\* A write through the MutAccessor that find_mut returns: the value of the
\* bucket found for key becomes value.
write_found(map, key, value) ==
    LET h   == hash(map, key)
        p   == table_for(map, h)
        idx == Table_lookup(map.tables[p], h, key)
    IN  [map EXCEPT !.tables[p].values[idx.val] = value]

(***************************************************************************)
(* src/src/fs.rs: EnvFs                                                    *)
(***************************************************************************)
Inos == 0 .. InoLimit - 1

Workers == 1 .. NumWorkers

\* InodeCounter { next_number: 3, generation: 0 }
InodeCounter_new == [next_number |-> 3, generation |-> 0]

\* next_inode_number as it would be if the wrap left the generation alone.
next_inode_number_same_generation(counter) ==
    LET next_number == counter.next_number
    IN  [ counter |-> [counter EXCEPT !.next_number =
                          IF next_number = 0 THEN FUSE_ROOT_ID + 1
                          ELSE (next_number + 1) % InoLimit],
          ret     |-> <<next_number, counter.generation>> ]

\* next_inode_number as it would be if it did not set next_number after
\* the wrap.
next_inode_number_without_reset(counter) ==
    LET next_number == counter.next_number
    IN  IF next_number = 0
        THEN [ counter |-> [counter EXCEPT !.next_number = (next_number + 1) % InoLimit,
                                           !.generation  = counter.generation + 1],
               ret     |-> <<next_number, counter.generation + 1>> ]
        ELSE [ counter |-> [counter EXCEPT !.next_number = (next_number + 1) % InoLimit],
               ret     |-> <<next_number, counter.generation>> ]

\* next_inode_number, in a build without overflow checks: the u64
\* `counter.next_number += 1` wraps to zero after the largest number, which
\* is InoLimit - 1 here.
next_inode_number(counter) ==
    LET next_number == counter.next_number
    IN  IF next_number = 0
        THEN [ counter |-> [counter EXCEPT !.next_number = FUSE_ROOT_ID + 1,
                                           !.generation  = counter.generation + 1],
               ret     |-> <<next_number, counter.generation + 1>> ]
        ELSE [ counter |-> [counter EXCEPT !.next_number = (next_number + 1) % InoLimit],
               ret     |-> <<next_number, counter.generation>> ]

ROOT_DIR_ATTR ==
    [ino |-> FUSE_ROOT_ID, size |-> 0, blocks |-> 0, kind |-> "Directory",
     perm |-> 493, nlink |-> ENVFS_MAGIC, uid |-> 0, gid |-> 0, rdev |-> 0]

symlink_attr(ino) ==
    [ino |-> ino, size |-> 0, blocks |-> 0, kind |-> "Symlink",
     perm |-> 777, nlink |-> <<0, 1>>, uid |-> 0, gid |-> 0, rdev |-> 0]

ReplyError(errno) == [type |-> "error", errno |-> errno]

ReplyPanic == [type |-> "panic"]

\* reply.entry(&Duration::from_secs(0), &attr, generation)
ReplyEntry(attr, generation) ==
    [type |-> "entry", ttl |-> 0, attr |-> attr, generation |-> generation]

\* reply.attr(&TTL, &attr)
ReplyAttr(attr) == [type |-> "attr", ttl |-> 1, attr |-> attr]

ReplyData(data) == [type |-> "data", data |-> data]

\* reply.statfs(0, 0, 0, 0, 0, 4096, 255, 4096)
ReplyStatfs ==
    [type |-> "statfs", blocks |-> 0, bfree |-> 0, bavail |-> 0, files |-> 0,
     ffree |-> 0, bsize |-> 4096, namelen |-> 255, frsize |-> 4096]

Inode(name, exe, pid, attr) ==
    [ name          |-> name,
      path          |-> exe.path,
      fallback_path |-> exe.fallback,
      pid           |-> pid,
      kind          |-> attr.kind,
      ino           |-> attr.ino,
      nlookup       |-> [value |-> 1, poisoned |-> FALSE] ]

\* EnvFs::inode: assert!(ino > 0), then find
inode(map, ino) ==
    IF ~(ino > 0)
    THEN [panic |-> TRUE]
    ELSE LET found == find(map, ino)
         IN  IF found.some
             THEN [panic |-> FALSE, ok |-> TRUE, val |-> found.val]
             ELSE [panic |-> FALSE, ok |-> FALSE, errno |-> "ESTALE"]

getattr(map, ino) ==
    IF ino = FUSE_ROOT_ID
    THEN ReplyAttr(ROOT_DIR_ATTR)
    ELSE LET i == inode(map, ino)
         IN  IF i.panic THEN ReplyPanic
             ELSE IF ~i.ok THEN ReplyError(i.errno)
             ELSE ReplyAttr(symlink_attr(ino))

\* statfs as it would be if it replied the structure for every inode.
statfs_of_any_inode(map, ino) ==
    LET i == inode(map, ino)
    IN  IF i.panic THEN ReplyPanic
        ELSE IF ~i.ok THEN ReplyError(i.errno)
        ELSE ReplyStatfs

statfs(map, ino) ==
    LET i == inode(map, ino)
    IN  IF i.panic THEN ReplyPanic
        ELSE IF ~i.ok THEN ReplyError(i.errno)
        ELSE IF i.val.fallback_path THEN ReplyStatfs
        ELSE ReplyError("ENOENT")

\* readlink as it would be if it resolved again for every requester.
readlink_always_resolves(map, ino, pid, world, fallback_paths) ==
    LET i == inode(map, ino)
    IN  IF i.panic THEN [reply |-> ReplyPanic, resolved |-> FALSE]
        ELSE IF ~i.ok THEN [reply |-> ReplyError(i.errno), resolved |-> FALSE]
        ELSE LET exe == resolve_target(world, i.val.name, fallback_paths).ret
             IN  [ reply    |-> IF exe.some THEN ReplyData(exe.val.path)
                                ELSE ReplyError("ENOENT"),
                   resolved |-> TRUE ]

\* readlink as it would be if it never resolved again.
readlink_never_resolves(map, ino, pid, world, fallback_paths) ==
    LET i == inode(map, ino)
    IN  IF i.panic THEN [reply |-> ReplyPanic, resolved |-> FALSE]
        ELSE IF ~i.ok THEN [reply |-> ReplyError(i.errno), resolved |-> FALSE]
        ELSE [reply |-> ReplyData(i.val.path), resolved |-> FALSE]

\* readlink: the reply, and whether resolve_target ran
readlink(map, ino, pid, world, fallback_paths) ==
    LET i == inode(map, ino)
    IN  IF i.panic THEN [reply |-> ReplyPanic, resolved |-> FALSE]
        ELSE IF ~i.ok THEN [reply |-> ReplyError(i.errno), resolved |-> FALSE]
        ELSE IF i.val.pid # pid
        THEN LET exe == resolve_target(world, i.val.name, fallback_paths).ret
             IN  [ reply    |-> IF exe.some THEN ReplyData(exe.val.path)
                                ELSE ReplyError("ENOENT"),
                   resolved |-> TRUE ]
        ELSE [reply |-> ReplyData(i.val.path), resolved |-> FALSE]

\* readdir: the (ino, offset, kind, name) entries added to the reply
readdir(ino, offset) ==
    IF ino # FUSE_ROOT_ID
    THEN ReplyError("ENOENT")
    ELSE LET entries == << <<1, "Directory", ".">>, <<1, "Directory", "..">> >>
         IN  [ type    |-> "directory",
               entries |-> [k \in 1 .. Max(Len(entries) - offset, 0) |->
                              << entries[k + offset][1], k + offset,
                                 entries[k + offset][2], entries[k + offset][3] >>] ]

getxattr == ReplyError("ENODATA")

(***************************************************************************)
(* The requests and the worlds the handlers are run on                     *)
(***************************************************************************)
Names == {"sh", "env"}

Dir(nlink, exec, served) == [nlink |-> nlink, exec |-> exec, served |-> served]

Rec(key, val) == [key |-> key, eq |-> TRUE, val |-> val]

RecNoEq(key) == [key |-> key, eq |-> FALSE, val |-> << >>]

Col(n) == [num |-> TRUE, val |-> n]

\* A column that does not parse as a number, as in "running"
NotNum == [num |-> FALSE, val |-> 0]

\* "nr a0 a1 a2 a3 a4 a5 sp pc"; a2 is the envp of an execve
SyscallLine(nr) ==
    << Col(nr), Col(8192), Col(12288), Col(4096), Col(0), Col(0), Col(0),
       Col(28672), Col(32768) >>

Mem(block) == (4096 :> block)

World(environ, syscall, mem, dirs) ==
    [environ |-> environ, syscall |-> syscall, mem |-> mem, dirs |-> dirs]

\* The hash values a RandomState can give the keys: the bits that select the
\* partition (hi) and the low bits that select the first bucket (lo).
MixHash == [k \in Inos |-> [hi |-> k \div 2, lo |-> 5 + 32 * k]]

\* Every key in one partition, on one probe sequence
BadHash == [k \in Inos |-> [hi |-> 0, lo |-> 0]]

HashFns == {MixHash}

\* The worlds of the lifecycle specification
OpenOld ==
    World(Ok(<<Rec("PATH", <<"/old/bin">>)>>), Ok(SyscallLine(SYS_openat)), Mem(Err),
          ("/old/bin" :> Dir(<<0, 2>>, Names, FALSE)))

OpenFallback ==
    World(Ok(<<Rec("PATH", <<"/old/bin">>)>>), Ok(SyscallLine(SYS_open)), Mem(Err),
          ("/old/bin" :> Dir(<<0, 2>>, {}, FALSE)) @@
          ("/run/fb" :> Dir(<<0, 2>>, Names, FALSE)))

Stat ==
    World(Ok(<<Rec("PATH", <<"/old/bin">>)>>), Ok(SyscallLine(4)), Mem(Err),
          ("/old/bin" :> Dir(<<0, 2>>, Names, FALSE)))

\* The worlds of the resolution specification: three families, each the
\* product of what one part of resolve_target reads.
MountDir == ("/usr/bin" :> Dir(ENVFS_MAGIC, Names, TRUE))

ExecSets == {{}, Names}

\* environ with or without ENVFS_RESOLVE_ALWAYS, as a record with and
\* without a '='
WithAlways(records) ==
    { records, records \o <<Rec("ENVFS_RESOLVE_ALWAYS", << >>)>>,
      records \o <<RecNoEq("ENVFS_RESOLVE_ALWAYS")>> }

SyscallFiles ==
    { Err, Ok(<<NotNum>>), Ok(<<Col(SYS_execve)>>) } \cup
    { Ok(SyscallLine(nr)) : nr \in {SYS_open, SYS_openat, SYS_execve, 322, 4} }

AllowWorlds ==
    { World(environ, syscall, Mem(Err),
            ("/old/bin" :> Dir(<<0, 2>>, old, FALSE)) @@
            ("/run/fb" :> Dir(<<0, 2>>, fb, FALSE))) :
        environ \in {Err} \cup { Ok(e) : e \in WithAlways(<< >>) \cup
                                              WithAlways(<<Rec("PATH", <<"/old/bin">>)>>) },
        syscall \in SyscallFiles, old \in ExecSets, fb \in ExecSets }

PathVals ==
    { << >>, <<"/old/bin">>, <<"/new/bin">>, <<"/usr/bin">>, <<"/usr/bin/sub">>,
      <<"/usr/bin", ":", "/old/bin">>, <<"/usr/bin/sub", ":", "/old/bin">>,
      <<"/old/bin", ":", "/new/bin">>, <<"/new/bin", ":", "/old/bin">> }

\* A directory below the mountpoint, as lstat can report it
SubDirs ==
    { << >> } \cup { ("/usr/bin/sub" :> Dir(<<0, 1>>, exec, TRUE)) : exec \in ExecSets }

SearchWorlds ==
    { World(Ok(<<Rec("PATH", path)>>), Ok(SyscallLine(SYS_openat)), Mem(Err),
            MountDir @@ sub @@
            ("/old/bin" :> Dir(<<0, 2>>, old, FALSE)) @@
            ("/new/bin" :> Dir(<<0, 2>>, new, FALSE)) @@
            ("/run/fb" :> Dir(<<0, 2>>, fb, FALSE))) :
        path \in PathVals, sub \in SubDirs, old \in ExecSets, new \in ExecSets,
        fb \in ExecSets }

MemBlocks ==
    { Err, Ok(<<Rec("HOME", << >>)>>), Ok(<<RecNoEq("PATH")>>) } \cup
    { Ok(<<Rec("PATH", path)>>) :
        path \in { << >>, <<"/new/bin">>, <<"/old/bin">>, <<"/usr/bin", ":", "/new/bin">> } }

ExecveWorlds ==
    { World(environ, Ok(SyscallLine(SYS_execve)), Mem(block),
            MountDir @@
            ("/old/bin" :> Dir(<<0, 2>>, old, FALSE)) @@
            ("/new/bin" :> Dir(<<0, 2>>, new, FALSE)) @@
            ("/run/fb" :> Dir(<<0, 2>>, fb, FALSE))) :
        environ \in { Err, Ok(<< >>), Ok(<<Rec("PATH", <<"/old/bin">>)>>),
                      Ok(<<Rec("PATH", <<"/new/bin">>)>>) },
        block \in MemBlocks, old \in ExecSets, new \in ExecSets, fb \in ExecSets }

AllWorlds == AllowWorlds \cup SearchWorlds \cup ExecveWorlds

Caller(pid, name, world) == [pid |-> pid, name |-> name, world |-> world]

\* The callers of the lifecycle specification
LifecycleCallers ==
    { Caller(100, "sh", OpenOld), Caller(200, "env", OpenFallback),
      Caller(100, "sh", Stat) }

(***************************************************************************)
(* The state                                                               *)
(***************************************************************************)
VARIABLES
    inodes,          \* EnvFs.inodes
    inode_counter,   \* EnvFs.inode_counter
    fallback_paths,  \* EnvFs.fallback_paths
    callers,         \* the processes that make requests: the pid, the name it
                     \* looks up and the world a handler finds it in
    session,         \* per worker thread: where it is in a handler, its locals
    last,            \* the request handled by the latest step, and its reply
    issued,          \* the (ino, generation) pairs next_inode_number returned
    replied,         \* the (ino, generation) pairs of the entry replies
    kernel,          \* the entries replied and not forgotten to zero or destroyed
    forgotten,       \* inos removed by a forget and not issued since
    content,         \* per key of a map that a test fills: the value of the
                     \* latest insert or upsert if no remove or clear came
                     \* after it, else which of these there was
    locks            \* per partition of a map that threads share: the thread
                     \* that holds its Mutex, or NoThread

vars == << inodes, inode_counter, fallback_paths, callers, session, last,
           issued, replied, kernel, forgotten, content, locks >>

NoThread == 0

Idle == [pc |-> "idle"]

Panicked == [pc |-> "panicked"]

Destroyed == [pc |-> "destroyed"]

Step == [op |-> "step"]

InitWith(hasher_factory, fallback, cs) ==
    /\ inodes = ConcHashMap_new(hasher_factory)
    /\ inode_counter = InodeCounter_new
    /\ fallback_paths = fallback
    /\ callers = cs
    /\ session = [w \in Workers |-> Idle]
    /\ last = [op |-> "init"]
    /\ issued = << >>
    /\ replied = {}
    /\ kernel = {}
    /\ forgotten = {}
    /\ content = << >>
    /\ locks = [p \in DOMAIN inodes.tables |-> NoThread]

Init == \E h \in HashFns : InitWith(h, <<"/run/fb">>, LifecycleCallers)

\* The node ids of requests: the kernel keeps no inode for an entry reply
\* that carries node id 0, and sends none.
RequestInos == Inos \ {0}

(***************************************************************************)
(* lookup                                                                  *)
(***************************************************************************)
\* lookup as it would be if it called next_inode_number before
\* resolve_target, also for a name that does not resolve.
Lookup_allocating_first(w) ==
    /\ session[w].pc = "idle"
    /\ \E parent \in {FUSE_ROOT_ID, FUSE_ROOT_ID + 1}, c \in callers :
         LET req      == [parent |-> parent, pid |-> c.pid, name |-> c.name,
                          world |-> c.world]
             resolved == resolve_target(c.world, c.name, fallback_paths)
             alloc    == next_inode_number(inode_counter)
         IN  IF parent # FUSE_ROOT_ID
             THEN /\ last' = [op |-> "lookup", req |-> req, accessed |-> {},
                              reply |-> ReplyError("ENOENT")]
                  /\ UNCHANGED << inode_counter, session, issued >>
             ELSE IF resolved.ret.some
             THEN /\ Len(issued) < MaxIssued
                  /\ inode_counter' = alloc.counter
                  /\ issued' = Append(issued, alloc.ret)
                  /\ session' = [session EXCEPT ![w] =
                         [pc |-> "lookup_insert", req |-> req,
                          accessed |-> resolved.accessed, exe |-> resolved.ret.val,
                          next_number |-> alloc.ret[1], generation |-> alloc.ret[2]]]
                  /\ last' = Step
             ELSE /\ last' = [op |-> "lookup", req |-> req,
                              accessed |-> resolved.accessed,
                              reply |-> ReplyError("ENOENT")]
                  /\ inode_counter' = alloc.counter
                  /\ UNCHANGED << session, issued >>
    /\ UNCHANGED << inodes, fallback_paths, callers, content, locks, replied, kernel,
                    forgotten >>

\* lookup up to the return of next_inode_number.  resolve_target touches no
\* state of the daemon.
Lookup(w) ==
    /\ session[w].pc = "idle"
    /\ \E parent \in {FUSE_ROOT_ID, FUSE_ROOT_ID + 1}, c \in callers :
         LET req      == [parent |-> parent, pid |-> c.pid, name |-> c.name,
                          world |-> c.world]
             resolved == resolve_target(c.world, c.name, fallback_paths)
             alloc    == next_inode_number(inode_counter)
         IN  IF parent # FUSE_ROOT_ID
             THEN /\ last' = [op |-> "lookup", req |-> req, accessed |-> {},
                              reply |-> ReplyError("ENOENT")]
                  /\ UNCHANGED << inode_counter, session, issued >>
             ELSE IF resolved.ret.some
             THEN /\ Len(issued) < MaxIssued
                  /\ inode_counter' = alloc.counter
                  /\ issued' = Append(issued, alloc.ret)
                  /\ session' = [session EXCEPT ![w] =
                         [pc |-> "lookup_insert", req |-> req,
                          accessed |-> resolved.accessed, exe |-> resolved.ret.val,
                          next_number |-> alloc.ret[1], generation |-> alloc.ret[2]]]
                  /\ last' = Step
             ELSE /\ last' = [op |-> "lookup", req |-> req,
                              accessed |-> resolved.accessed,
                              reply |-> ReplyError("ENOENT")]
                  /\ UNCHANGED << inode_counter, session, issued >>
    /\ UNCHANGED << inodes, fallback_paths, callers, content, locks, replied, kernel,
                    forgotten >>

\* lookup from the insert on: the insert happens, then the assertion on its
\* result fails or the entry is replied.
LookupInsert(w) ==
    /\ session[w].pc = "lookup_insert"
    /\ LET l     == session[w]
           attr  == symlink_attr(l.next_number)
           new   == Inode(l.req.name, l.exe, l.req.pid, attr)
           r     == insert(inodes, l.next_number, new)
       IN  /\ inodes' = r.map
           /\ IF r.ret.some
              THEN /\ session' = [session EXCEPT ![w] = Panicked]
                   /\ last' = [op |-> "lookup", req |-> l.req, accessed |-> l.accessed,
                               reply |-> ReplyPanic]
                   /\ UNCHANGED << replied, kernel, forgotten >>
              ELSE /\ session' = [session EXCEPT ![w] = Idle]
                   /\ last' = [op |-> "lookup", req |-> l.req, accessed |-> l.accessed,
                               reply |-> ReplyEntry(attr, l.generation)]
                   /\ replied' = replied \cup {<<l.next_number, l.generation>>}
                   /\ kernel' = kernel \cup
                         {[ino |-> l.next_number, name |-> new.name, path |-> new.path,
                           pid |-> new.pid]}
                   /\ forgotten' = forgotten \ {l.next_number}
    /\ UNCHANGED << inode_counter, fallback_paths, callers, content, locks, issued >>

(***************************************************************************)
(* forget                                                                  *)
(***************************************************************************)
\* forget up to the release of the partition lock that find_mut took: a
\* poisoned nlookup lock fails the unwrap, a failed assertion poisons it.
Forget(w) ==
    /\ session[w].pc = "idle"
    /\ \E ino \in RequestInos, nlookup \in 0 .. MaxForget :
         LET found == find(inodes, ino)
             old   == found.val.nlookup
         IN  /\ last' = [op |-> "forget", ino |-> ino, nlookup |-> nlookup]
             /\ IF ~found.some
                 THEN UNCHANGED << inodes, session, kernel >>
                 ELSE IF old.poisoned
                 THEN /\ session' = [session EXCEPT ![w] = Panicked]
                      /\ UNCHANGED << inodes, kernel >>
                 ELSE IF ~(old.value >= nlookup)
                 THEN /\ inodes' = write_found(inodes, ino,
                                       [found.val EXCEPT !.nlookup.poisoned = TRUE])
                      /\ session' = [session EXCEPT ![w] = Panicked]
                      /\ UNCHANGED kernel
                 ELSE /\ inodes' = write_found(inodes, ino,
                                       [found.val EXCEPT !.nlookup.value = old.value - nlookup])
                      /\ IF old.value - nlookup # 0
                         THEN UNCHANGED << session, kernel >>
                         ELSE /\ session' = [session EXCEPT ![w] =
                                                [pc |-> "forget_remove", ino |-> ino]]
                              /\ kernel' = kernel \
                                    {[ino |-> ino, name |-> found.val.name,
                                      path |-> found.val.path, pid |-> found.val.pid]}
    /\ UNCHANGED << inode_counter, fallback_paths, callers, content, locks, issued,
                    replied, forgotten >>

\* forget: self.inodes.remove(&ino)
ForgetRemove(w) ==
    /\ session[w].pc = "forget_remove"
    /\ inodes' = remove(inodes, session[w].ino).map
    /\ forgotten' = forgotten \cup {session[w].ino}
    /\ session' = [session EXCEPT ![w] = Idle]
    /\ last' = [op |-> "forget_remove", ino |-> session[w].ino]
    /\ UNCHANGED << inode_counter, fallback_paths, callers, content, locks, issued,
                    replied, kernel >>

(***************************************************************************)
(* destroy                                                                 *)
(***************************************************************************)
\* destroy is the last call a session makes on its filesystem: the worker
\* thread takes no request after it.  ConcHashMap::clear locks and clears
\* one partition after the other.  No operation but clear ever touches a
\* partition that no key hashes to, so one step clears the partitions from
\* `from` up to the next one that a key hashes to, and the rest of them
\* when there is no such partition left.
key_tables(map) == {table_for(map, hash(map, k)) : k \in Inos}

clear_upto(map, from) ==
    LET later == {p \in key_tables(map) : p >= from}
        next  == CHOOSE p \in later : \A q \in later : p <= q
    IN  IF later = {} THEN map.table_mask
        ELSE IF \A q \in key_tables(map) : q <= next THEN map.table_mask
        ELSE next

clear_tables(map, from, upto) ==
    [map EXCEPT !.tables = [p \in DOMAIN map.tables |->
        IF from <= p /\ p <= upto THEN Table_clear(map.tables[p]) ELSE map.tables[p]]]

clear_step(w, from) ==
    LET upto == clear_upto(inodes, from)
    IN  /\ inodes' = clear_tables(inodes, from, upto)
        /\ session' = [session EXCEPT ![w] =
                          IF upto = inodes.table_mask
                          THEN Destroyed
                          ELSE [pc |-> "destroy", table |-> upto + 1]]
        /\ kernel' = {}
        /\ last' = [op |-> "destroy"]
        /\ UNCHANGED << inode_counter, fallback_paths, callers, content, locks, issued,
                        replied, forgotten >>

\* destroy up to the release of the first lock that matters
Destroy(w) ==
    /\ session[w].pc = "idle"
    /\ clear_step(w, 0)

\* destroy: the following partitions
DestroyNext(w) ==
    /\ session[w].pc = "destroy"
    /\ clear_step(w, session[w].table)

(***************************************************************************)
(* The handlers that only read                                             *)
(***************************************************************************)
Replied(w, event) ==
    /\ last' = event
    /\ session' = [session EXCEPT ![w] =
                      IF event.reply = ReplyPanic THEN Panicked ELSE Idle]
    /\ UNCHANGED << inodes, inode_counter, fallback_paths, callers, content, locks, issued,
                    replied, kernel, forgotten >>

Getattr(w) ==
    /\ session[w].pc = "idle"
    /\ \E ino \in RequestInos :
         Replied(w, [op |-> "getattr", ino |-> ino, reply |-> getattr(inodes, ino)])

Statfs(w) ==
    /\ session[w].pc = "idle"
    /\ \E ino \in RequestInos :
         Replied(w, [op |-> "statfs", ino |-> ino, reply |-> statfs(inodes, ino)])

Readlink(w) ==
    /\ session[w].pc = "idle"
    /\ \E ino \in RequestInos, c \in callers :
         LET r == readlink(inodes, ino, c.pid, c.world, fallback_paths)
         IN  Replied(w, [op |-> "readlink", ino |-> ino, pid |-> c.pid,
                         world |-> c.world, resolved |-> r.resolved,
                         reply |-> r.reply])

Readdir(w) ==
    /\ session[w].pc = "idle"
    /\ \E ino \in {FUSE_ROOT_ID, FUSE_ROOT_ID + 1}, offset \in 0 .. MaxOffset :
         Replied(w, [op |-> "readdir", ino |-> ino, offset |-> offset,
                     reply |-> readdir(ino, offset)])

Getxattr(w) ==
    /\ session[w].pc = "idle"
    /\ Replied(w, [op |-> "getxattr", reply |-> getxattr])

(***************************************************************************)
(* The lifecycle specification: the handlers that write the inode table    *)
(* or the counter, run by all workers in every interleaving.  The handlers *)
(* that only read leave its states as they are; they are run in the        *)
(* resolution specification.                                               *)
(***************************************************************************)
Next ==
    \E w \in Workers :
        \/ Lookup(w)
        \/ LookupInsert(w)
        \/ Forget(w)
        \/ ForgetRemove(w)
        \/ Destroy(w)
        \/ DestroyNext(w)

Spec == Init /\ [][Next]_vars

(***************************************************************************)
(* The resolution specification: every handler that replies, on a          *)
(* filesystem that allocates one inode number, for a caller in any of the  *)
(* worlds and a caller of the lifecycle specification before and after it  *)
(* has changed to another syscall.                                         *)
(***************************************************************************)
InitResolve ==
    \E world \in AllWorlds, fallback \in {<< >>, <<"/run/fb">>} :
        InitWith(MixHash, fallback,
                 {Caller(100, "sh", OpenOld), Caller(100, "sh", Stat),
                  Caller(200, "env", world)})

FirstLookup(w) == issued = << >> /\ Lookup(w)

NextResolve ==
    \E w \in Workers :
        \/ FirstLookup(w)
        \/ LookupInsert(w)
        \/ Getattr(w)
        \/ Statfs(w)
        \/ Readlink(w)
        \/ Readdir(w)
        \/ Getxattr(w)

SpecResolve == InitResolve /\ [][NextResolve]_vars

(***************************************************************************)
(* The frame specification: every handler of the filesystem, those that    *)
(* write the inode table or the counter and those that only read, run by   *)
(* all workers in every interleaving, for a caller whose lookups resolve   *)
(* and a caller whose lookups do not.                                      *)
(***************************************************************************)
InitFrame ==
    InitWith(MixHash, <<"/run/fb">>,
             {Caller(100, "sh", OpenOld), Caller(200, "env", Stat)})

NextFrame ==
    \/ Next
    \/ \E w \in Workers :
          \/ Getattr(w)
          \/ Statfs(w)
          \/ Readlink(w)
          \/ Readdir(w)
          \/ Getxattr(w)

SpecFrame == InitFrame /\ [][NextFrame]_vars

(***************************************************************************)
(* The lookup specification: lookup for names with and without a '/', on   *)
(* the root and on another parent.  A name with a '/' is executable in a   *)
(* directory if the file it names below the directory is.                  *)
(***************************************************************************)
SlashNames == {"sub/sh"}

LookupNames == {"sh"} \cup SlashNames

LookupWorlds ==
    { World(Ok(<<Rec("PATH", <<"/old/bin">>)>>), syscall, Mem(Err),
            ("/old/bin" :> Dir(<<0, 2>>, old, FALSE)) @@
            ("/run/fb" :> Dir(<<0, 2>>, fb, FALSE))) :
        syscall \in SyscallFiles, old \in SUBSET LookupNames,
        fb \in SUBSET LookupNames }

InitLookup ==
    \E world \in LookupWorlds, name \in LookupNames,
       fallback \in {<< >>, <<"/run/fb">>} :
        InitWith(MixHash, fallback, {Caller(100, name, world)})

NextLookup ==
    \E w \in Workers :
        \/ FirstLookup(w)
        \/ LookupInsert(w)

SpecLookup == InitLookup /\ [][NextLookup]_vars

(***************************************************************************)
(* The syscall file specification: lookup by a caller whose                *)
(* /proc/<pid>/syscall reads "running" and would read as a line of numbers *)
(* if it were opened once more, and by callers whose file reads as that    *)
(* line at once.                                                           *)
(***************************************************************************)
\* The file reads "running\n"; later is what the next read would return
ReadsRunning(later) == [ok |-> TRUE, val |-> <<NotNum>>, later |-> later]

RunningWorlds ==
    { World(environ, syscall, Mem(Err),
            ("/old/bin" :> Dir(<<0, 2>>, old, FALSE)) @@
            ("/run/fb" :> Dir(<<0, 2>>, fb, FALSE))) :
        environ \in { Ok(<< >>), Ok(<<Rec("PATH", <<"/old/bin">>)>>) },
        syscall \in { Ok(SyscallLine(SYS_openat)), Ok(SyscallLine(SYS_execve)) } \cup
                    { ReadsRunning(later) :
                        later \in { Err, Ok(<<NotNum>>), Ok(SyscallLine(4)),
                                    Ok(SyscallLine(SYS_openat)),
                                    Ok(SyscallLine(SYS_execve)) } },
        old \in ExecSets, fb \in ExecSets }

InitRunning ==
    \E world \in RunningWorlds, name \in Names, fallback \in {<< >>, <<"/run/fb">>} :
        InitWith(MixHash, fallback, {Caller(100, name, world)})

NextRunning ==
    \E w \in Workers :
        \/ FirstLookup(w)
        \/ LookupInsert(w)

SpecRunning == InitRunning /\ [][NextRunning]_vars

(***************************************************************************)
(* The search specification: which() applied to a PATH value, a name and   *)
(* a fallback list, over directories in every state _which tells apart.    *)
(***************************************************************************)
WhichDirNames == {"/old/bin", "/new/bin", "/run/fb", "/opt/fb"}

\* lstat fails; or it reports the link count of a root directory of this
\* filesystem; or another link count, the names being executable or not
NoDir == [missing |-> TRUE]

WhichDirStates ==
    { NoDir, Dir(ENVFS_MAGIC, Names, TRUE), Dir(<<0, 2>>, {}, FALSE),
      Dir(<<0, 2>>, Names, FALSE) }

WhichDirs ==
    { [d \in {x \in WhichDirNames : f[x] # NoDir} |-> f[d]] :
        f \in [WhichDirNames -> WhichDirStates] }

WhichPaths ==
    { << >>, <<"/old/bin">>, <<"/old/bin", ":", "/new/bin">>,
      <<"/new/bin", ":", "/old/bin">>, <<"/run/fb", ":", "/old/bin">> }

WhichFallbacks ==
    { << >>, <<"/run/fb">>, <<"/run/fb", "/opt/fb">>, <<"/opt/fb", "/run/fb">> }

InitWhich ==
    \E dirs \in WhichDirs, path \in WhichPaths, fallback \in WhichFallbacks,
       name \in Names :
        InitWith(MixHash, fallback,
                 {Caller(100, name,
                         World(Ok(<<Rec("PATH", path)>>), Ok(SyscallLine(SYS_openat)),
                               Mem(Err), dirs))})

\* which(path, name, fallback_paths) as the tail of resolve_target calls it
Which(w) ==
    /\ session[w].pc = "idle"
    /\ \E c \in callers :
         LET path_env == read_environment(c.world).val["PATH"]
             found    == which(c.world, path_env, c.name, fallback_paths)
         IN  last' = [op |-> "which", world |-> c.world, path_env |-> path_env,
                      exe_name |-> c.name, ret |-> found.ret,
                      tried |-> found.tried]
    /\ UNCHANGED << inodes, inode_counter, fallback_paths, callers, content, locks, session,
                    issued, replied, kernel, forgotten >>

NextWhich == \E w \in Workers : Which(w)

SpecWhich == InitWhich /\ [][NextWhich]_vars

(***************************************************************************)
(* The map specification: one thread calls insert, remove and clear on a   *)
(* ConcHashMap in any order, as the tests of map.rs do, with keys whose    *)
(* hashes collide, wrap around the end of the table and force it to grow.  *)
(***************************************************************************)
\* The keys are 1 .. MaxKeys.
MaxKeys == 4

\* A key is inserted at most MaxInserts times; its n-th insert writes the
\* value n, so that a value read tells which insert wrote it.
MaxInserts == 2

MapKeys == 1 .. MaxKeys

\* test::BadHasher: finish() is 0 for every key
BadHasher == [k \in MapKeys |-> [hi |-> 0, lo |-> 0]]

\* One hash for every key, whose bucket is the last one of a table of 32
\* and of 64: the second and the third key make the table grow.
SameHasher == [k \in MapKeys |-> [hi |-> 0, lo |-> 63]]

\* Hashes that a RandomState can give: in a table of 32 the probe sequence
\* of the keys 1 and 2 is 29, 30, 0, .. and that of the others 30, 31.
WrapHasher == [k \in MapKeys |-> [hi |-> 0, lo |-> IF k <= 2 THEN 29 ELSE 30]]

MapHashers == {BadHasher, SameHasher, WrapHasher}

\* content of a key without a mapping: by is what took it away, inserts the
\* number of inserts of the key so far
Absent(by, inserts) == [some |-> FALSE, by |-> by, inserts |-> inserts]

\* the number of inserts of a key so far
inserts_of(c) == IF c.some THEN c.val ELSE c.inserts

\* A new map with the hasher, no filesystem around it, and every thread at
\* start
InitMapWith(hasher_factory, start) ==
    /\ inodes = ConcHashMap_new(hasher_factory)
    /\ content = [k \in DOMAIN hasher_factory |-> Absent("new", 0)]
    /\ locks = [p \in DOMAIN inodes.tables |-> NoThread]
    /\ inode_counter = InodeCounter_new
    /\ fallback_paths = << >>
    /\ callers = {}
    /\ session = [w \in Workers |-> start]
    /\ last = [op |-> "init"]
    /\ issued = << >>
    /\ replied = {}
    /\ kernel = {}
    /\ forgotten = {}

InitMap == \E hasher_factory \in MapHashers : InitMapWith(hasher_factory, Idle)

MapInsert ==
    /\ \E k \in MapKeys :
         LET v == inserts_of(content[k]) + 1
         IN  /\ v <= MaxInserts
             /\ inodes' = insert(inodes, k, v).map
             /\ content' = [content EXCEPT ![k] = Some(v)]
    /\ UNCHANGED << inode_counter, fallback_paths, callers, locks, session, last,
                    issued, replied, kernel, forgotten >>

MapRemove ==
    /\ \E k \in MapKeys :
         /\ inodes' = remove(inodes, k).map
         /\ content' = [content EXCEPT ![k] = Absent("remove", inserts_of(@))]
    /\ UNCHANGED << inode_counter, fallback_paths, callers, locks, session, last,
                    issued, replied, kernel, forgotten >>

\* ConcHashMap::clear
clear(map) == clear_tables(map, 0, map.table_mask)

MapClear ==
    /\ inodes' = clear(inodes)
    /\ content' = [k \in MapKeys |-> Absent("clear", inserts_of(content[k]))]
    /\ UNCHANGED << inode_counter, fallback_paths, callers, locks, session, last,
                    issued, replied, kernel, forgotten >>

NextMap == MapInsert \/ MapRemove \/ MapClear

SpecMap == InitMap /\ [][NextMap]_vars

(***************************************************************************)
(* The probe specification: one thread calls insert, find and remove on a  *)
(* ConcHashMap and counts the buckets each probe loop of Table::lookup and *)
(* Table::put visits and the resizes a put makes.  Among the hashers is    *)
(* one whose hashes have every bit set, so that a key's first bucket is    *)
(* the last one of a table of any capacity.                                *)
(***************************************************************************)
\* MAX_CAPACITY of table.rs, (1 << 48) - 1, scaled to the tables of the
\* model: resize panics when the doubled capacity is above it.
MaxCapacity == 255

\* u64::MAX & HASH_MASK: every bit of the hash is set, -1 in two's
\* complement, so that lo % capacity is capacity - 1 for every capacity.
OnesHasher == [k \in MapKeys |-> [hi |-> 0, lo |-> -1]]

ProbeHashers == MapHashers \cup {OnesHasher}

\* The thread works on the keys 1 .. MaxProbeKeys.
MaxProbeKeys == 3

ProbeKeys == 1 .. MaxProbeKeys

\* The number of buckets the loop of Table::lookup visits from bucket i.
RECURSIVE lookup_steps(_, _, _, _)
lookup_steps(t, key, i, j) ==
    IF is_present(t, i) /\ t.keys[i] = key
    THEN 1
    ELSE IF ~is_present(t, i) /\ ~is_deleted(t, i)
    THEN 1
    ELSE IF i = t.capacity - 1
    THEN 1
    ELSE 1 + lookup_steps(t, key, (i + j + 1) % t.capacity, j + 1)

\* The number of buckets the inner loop of Table::put visits from bucket i.
RECURSIVE put_steps(_, _, _, _)
put_steps(t, key, i, j) ==
    IF ~is_present(t, i)
    THEN 1
    ELSE IF t.keys[i] = key
    THEN 1
    ELSE IF i = t.capacity - 1
    THEN 1
    ELSE 1 + put_steps(t, key, (i + j + 1) % t.capacity, j + 1)

\* Table::put, with what it did on the way: placed is whether the entry was
\* written or updated, resizes the number of calls of resize, within whether
\* every run of the inner loop visited at most capacity buckets.  resize
\* panics with "requested size" when the new capacity is above MAX_CAPACITY;
\* table is then the table of the last resize that was made.
RECURSIVE put_run(_, _, _, _, _, _, _)
put_run(t, key, value, h, update, resizes, within) ==
    IF t.capacity = 0
    THEN put_run(Table_resize(t), key, value, h, update, resizes + 1, within)
    ELSE LET start == h.lo % t.capacity
             r     == Table_put_probe(t, key, value, h, update, start, 0)
             short == within /\ put_steps(t, key, start, 0) <= t.capacity
         IN  IF ~r.full
             THEN [ placed |-> TRUE, resizes |-> resizes, within |-> short,
                    table |-> r.table, ret |-> r.ret ]
             ELSE IF Max(t.capacity + t.capacity, MIN_CAPACITY) > MaxCapacity
             THEN [ placed |-> FALSE, resizes |-> resizes, within |-> short,
                    table |-> t, ret |-> None ]
             ELSE put_run(Table_resize(t), key, value, h, update,
                          resizes + 1, short)

InitProbe == \E hasher_factory \in ProbeHashers : InitMapWith(hasher_factory, Idle)

\* ConcHashMap::insert: the put of the key's partition
ProbeInsert ==
    /\ session[1] = Idle
    /\ \E k \in ProbeKeys :
         LET v   == inserts_of(content[k]) + 1
             h   == hash(inodes, k)
             p   == table_for(inodes, h)
             run == put_run(inodes.tables[p], k, v, h, "swap", 0, TRUE)
         IN  /\ v <= MaxInserts
             /\ inodes' = [inodes EXCEPT !.tables[p] = run.table]
             /\ content' = IF run.placed
                           THEN [content EXCEPT ![k] = Some(v)]
                           ELSE content
             /\ session' = IF run.placed
                           THEN session
                           ELSE [session EXCEPT ![1] = Panicked]
             /\ last' = [ op |-> "put", key |-> k, placed |-> run.placed,
                          resizes |-> run.resizes, within |-> run.within ]
    /\ UNCHANGED << inode_counter, fallback_paths, callers, locks, issued,
                    replied, kernel, forgotten >>

\* ConcHashMap::find: the lookup of the key's partition
ProbeFind ==
    /\ session[1] = Idle
    /\ \E k \in ProbeKeys :
         LET h == hash(inodes, k)
             t == inodes.tables[table_for(inodes, h)]
         IN  last' = [ op |-> "lookup", key |-> k, capacity |-> t.capacity,
                       found |-> find(inodes, k).some,
                       steps |-> IF t.capacity = 0
                                 THEN 0
                                 ELSE lookup_steps(t, k, h.lo % t.capacity, 0) ]
    /\ UNCHANGED << inodes, content, inode_counter, fallback_paths, callers,
                    locks, session, issued, replied, kernel, forgotten >>

ProbeRemove ==
    /\ session[1] = Idle
    /\ \E k \in ProbeKeys :
         /\ inodes' = remove(inodes, k).map
         /\ content' = [content EXCEPT ![k] = Absent("remove", inserts_of(@))]
         /\ last' = [op |-> "remove", key |-> k]
    /\ UNCHANGED << inode_counter, fallback_paths, callers, locks, session,
                    issued, replied, kernel, forgotten >>

NextProbe == ProbeInsert \/ ProbeFind \/ ProbeRemove

SpecProbe == InitProbe /\ [][NextProbe]_vars

(***************************************************************************)
(* test::test_remove_insert: keys are inserted, then some of them are      *)
(* removed, then some of the removed ones are inserted again with another  *)
(* value.  The keys of each loop are taken in any order, and any of them   *)
(* may be left out.  Where the test is shows in content: a loop has ended  *)
(* when the next one has made its first call.                              *)
(***************************************************************************)
\* the first loop: map.insert(i, (i * i).to_string())
TestInsert ==
    /\ \A j \in MapKeys : content[j] \in {Absent("new", 0), Some(1)}
    /\ \E k \in MapKeys :
         /\ content[k] = Absent("new", 0)
         /\ inodes' = insert(inodes, k, 1).map
         /\ content' = [content EXCEPT ![k] = Some(1)]
    /\ UNCHANGED << inode_counter, fallback_paths, callers, locks, session, last,
                    issued, replied, kernel, forgotten >>

\* the second loop: map.remove(&i)
TestRemove ==
    /\ \A j \in MapKeys : content[j] # Some(2)
    /\ \E k \in MapKeys :
         /\ content[k] = Some(1)
         /\ inodes' = remove(inodes, k).map
         /\ content' = [content EXCEPT ![k] = Absent("remove", 1)]
    /\ UNCHANGED << inode_counter, fallback_paths, callers, locks, session, last,
                    issued, replied, kernel, forgotten >>

\* the third loop: map.insert(i, i.to_string())
TestInsertAgain ==
    /\ \E k \in MapKeys :
         /\ content[k] = Absent("remove", 1)
         /\ inodes' = insert(inodes, k, 2).map
         /\ content' = [content EXCEPT ![k] = Some(2)]
    /\ UNCHANGED << inode_counter, fallback_paths, callers, locks, session, last,
                    issued, replied, kernel, forgotten >>

NextRemoveInsert == TestInsert \/ TestRemove \/ TestInsertAgain

SpecRemoveInsert == InitMap /\ [][NextRemoveInsert]_vars

(***************************************************************************)
(* Threads that share a map, as in tests/tests.rs.  A call on a key spins  *)
(* until the Mutex of the key's partition is free, takes it, works on the  *)
(* Table and gives the Mutex back when its guard is dropped.               *)
(***************************************************************************)
\* Thread t owns the keys (t - 1) * KeysPerThread + 1 .. t * KeysPerThread.
KeysPerThread == 2

\* The number of calls a thread makes.
MaxCalls == 3

ThreadKeys == 1 .. NumWorkers * KeysPerThread

\* Hashes that a RandomState can give: odd and even keys in two partitions,
\* every key of a partition on one probe sequence that starts at the last
\* bucket, so that the second and the third key make the table grow.
ShardHasher == [k \in ThreadKeys |-> [hi |-> k % 2, lo |-> 63]]

\* A thread between two calls, after `calls` calls
Thread(calls) == [pc |-> "idle", calls |-> calls]

InitThreads == InitMapWith(ShardHasher, Thread(0))

table_of(map, key) == table_for(map, hash(map, key))

\* self.tables[table_idx].lock() at the start of `call`
Lock(t, call, k) ==
    /\ session[t].pc = "idle"
    /\ locks[table_of(inodes, k)] = NoThread
    /\ locks' = [locks EXCEPT ![table_of(inodes, k)] = t]
    /\ session' = [session EXCEPT ![t] = [pc |-> call, key |-> k, calls |-> @.calls]]
    /\ UNCHANGED << inodes, content, inode_counter, fallback_paths, callers, last,
                    issued, replied, kernel, forgotten >>

\* The rest of a call that leaves the map as `map`, up to the drop of the
\* guard at its return
Return(t, map) ==
    /\ inodes' = map
    /\ locks' = [locks EXCEPT ![table_of(inodes, session[t].key)] = NoThread]
    /\ session' = [session EXCEPT ![t] = Thread(@.calls + 1)]
    /\ UNCHANGED << inode_counter, fallback_paths, callers, last, issued, replied,
                    kernel, forgotten >>

\* map.upsert(num, 1, &|count| *count += 1)
UpsertLock(t) ==
    /\ session[t].calls < MaxCalls
    /\ \E k \in ThreadKeys : Lock(t, "upsert", k)

UpsertPut(t) ==
    /\ session[t].pc = "upsert"
    /\ Return(t, upsert(inodes, session[t].key, 1, "increment"))
    /\ content' = [content EXCEPT ![session[t].key] =
                      IF @.some THEN Some(@.val + 1) ELSE Some(1)]

\* map.remove(&key)
RemoveLock(t) ==
    /\ session[t].calls < MaxCalls
    /\ \E k \in ThreadKeys : Lock(t, "remove", k)

RemoveKey(t) ==
    /\ session[t].pc = "remove"
    /\ Return(t, remove(inodes, session[t].key).map)
    /\ content' = [content EXCEPT ![session[t].key] = Absent("remove", 0)]

NextUpsert ==
    \E t \in Workers :
        \/ UpsertLock(t)
        \/ UpsertPut(t)
        \/ RemoveLock(t)
        \/ RemoveKey(t)

SpecUpsert == InitThreads /\ [][NextUpsert]_vars

(***************************************************************************)
(* many_threads: thread t inserts its keys with the value t and, after     *)
(* each insert, finds a random key x and returns Err if the value found is *)
(* not that of the thread that owns x.  A thread has made an even number   *)
(* of calls before an insert and an odd number before a find.              *)
(***************************************************************************)
\* x / n
owner(x) == (x - 1) \div KeysPerThread + 1

\* return Err(format!("{} => {}", x, *y.get()))
Failed == [pc |-> "err"]

\* map.insert(i, t)
InsertLock(t) ==
    /\ session[t].calls % 2 = 0
    /\ session[t].calls < KeysPerThread + KeysPerThread
    /\ Lock(t, "insert", (t - 1) * KeysPerThread + 1 + session[t].calls \div 2)

InsertPut(t) ==
    /\ session[t].pc = "insert"
    /\ Return(t, insert(inodes, session[t].key, t).map)
    /\ content' = [content EXCEPT ![session[t].key] = Some(t)]

\* find as it would be if the Accessor did not keep the guard.
find_guard_dropped(t, found) == NoThread

\* The holder of the partition's Mutex when find returns: the guard moves
\* into the Accessor, or is dropped with the None
find_guard(t, found) == IF found.some THEN t ELSE NoThread

\* map.find(&x) up to its return
FindLock(t) ==
    /\ session[t].pc = "idle"
    /\ session[t].calls % 2 = 1
    /\ \E x \in ThreadKeys :
         LET p     == table_of(inodes, x)
             found == Table_lookup(inodes.tables[p], hash(inodes, x), x)
         IN  /\ locks[p] = NoThread
             /\ locks' = [locks EXCEPT ![p] = find_guard(t, found)]
             /\ session' = [session EXCEPT ![t] =
                    IF found.some
                    THEN [pc |-> "accessor", key |-> x, idx |-> found.val,
                          calls |-> @.calls]
                    ELSE Thread(@.calls + 1)]
    /\ UNCHANGED << inodes, content, inode_counter, fallback_paths, callers, last,
                    issued, replied, kernel, forgotten >>

\* The values *y.get() can read: that of the bucket the Accessor points at;
\* any value if the bucket is not present, its memory being uninitialised
\* or freed.
accessor_get(table, idx) ==
    IF idx < table.capacity /\ is_present(table, idx)
    THEN {table.values[idx]}
    ELSE Workers

\* The guard and the comparison of the match arm, then the drop of the
\* Accessor at the end of the match
AccessorGet(t) ==
    /\ session[t].pc = "accessor"
    /\ LET x == session[t].key
           p == table_of(inodes, x)
       IN  /\ \E y \in accessor_get(inodes.tables[p], session[t].idx) :
                 session' = [session EXCEPT ![t] =
                    IF owner(x) # y THEN Failed ELSE Thread(@.calls + 1)]
           /\ locks' = [locks EXCEPT ![p] = IF @ = t THEN NoThread ELSE @]
    /\ UNCHANGED << inodes, content, inode_counter, fallback_paths, callers, last,
                    issued, replied, kernel, forgotten >>

NextThreads ==
    \E t \in Workers :
        \/ InsertLock(t)
        \/ InsertPut(t)
        \/ FindLock(t)
        \/ AccessorGet(t)

\* Every key in one partition and on one probe sequence
OneTableHasher == [k \in ThreadKeys |-> [hi |-> 0, lo |-> 63]]

\* HashMap::new(), or with_options with a hasher factory
InitManyThreads ==
    \E hasher_factory \in {ShardHasher, OneTableHasher} :
        InitMapWith(hasher_factory, Thread(0))

SpecThreads == InitManyThreads /\ [][NextThreads]_vars

(***************************************************************************)
(* iter(): one thread iterates, holding the Mutex of the partition it is   *)
(* in, while another inserts and removes.  last is the last update; it is  *)
(* the call of iter() itself as long as no update has followed.            *)
(***************************************************************************)
MaxIterKeys == 3

IterKeys == 1 .. MaxIterKeys

\* The keys alternate between the partitions 0 and 2 and share one probe
\* sequence there; the partitions between and after keep the capacity 0.
SplitHasher == [k \in IterKeys |-> [hi |-> 2 * (k % 2), lo |-> 0]]

\* test::BadHasher on the keys of the iteration
IterBadHasher == [k \in IterKeys |-> [hi |-> 0, lo |-> 0]]

InitIter ==
    \E hasher_factory \in {IterBadHasher, SplitHasher} :
        InitMapWith(hasher_factory, Idle)

\* Table::iter_advance from bucket i on: the entry and the new idx
RECURSIVE iter_advance_from(_, _)
iter_advance_from(table, i) ==
    IF i >= table.capacity
    THEN [ret |-> None, idx |-> table.capacity]
    ELSE IF is_present(table, i)
    THEN [ret |-> Some(<<table.keys[i], table.values[i]>>), idx |-> i + 1]
    ELSE iter_advance_from(table, i + 1)

iter_advance(table, idx) ==
    IF idx >= table.capacity
    THEN [ret |-> None, idx |-> idx]
    ELSE iter_advance_from(table, idx)

\* Entries::next_table
next_table(entries) == [table_idx |-> entries.table_idx + 1, bucket |-> 0]

\* Entries::next: the item, and the Entries after the call
RECURSIVE Entries_next(_, _)
Entries_next(map, entries) ==
    LET len  == map.table_mask + 1
        full == entries.bucket = map.tables[entries.table_idx].capacity
    IN  IF full /\ entries.table_idx + 1 = len
        THEN [ret |-> None, entries |-> entries]
        ELSE LET here  == IF full THEN next_table(entries) ELSE entries
                 res   == iter_advance(map.tables[here.table_idx], here.bucket)
                 after == [here EXCEPT !.bucket = res.idx]
             IN  IF res.ret.some
                 THEN [ret |-> res.ret, entries |-> after]
                 ELSE IF after.table_idx + 1 = len
                 THEN [ret |-> None, entries |-> after]
                 ELSE Entries_next(map, next_table(after))

\* for (k, v) in map.iter(): the call of iter()
Iter(t) ==
    /\ session[t].pc = "idle"
    /\ locks[0] = NoThread
    /\ locks' = [locks EXCEPT ![0] = t]
    /\ session' = [session EXCEPT ![t] =
           [pc |-> "entries", entries |-> [table_idx |-> 0, bucket |-> 0],
            yielded |-> << >>]]
    /\ last' = [op |-> "iter"]
    /\ UNCHANGED << inodes, content, inode_counter, fallback_paths, callers, issued,
                    replied, kernel, forgotten >>

\* One call of next(); after None the loop ends and the Entries is dropped
EntriesNext(t) ==
    /\ session[t].pc = "entries"
    /\ LET r == Entries_next(inodes, session[t].entries)
       IN  /\ \A p \in session[t].entries.table_idx + 1 .. r.entries.table_idx :
                 locks[p] = NoThread
           /\ IF r.ret.some
              THEN /\ session' = [session EXCEPT ![t] =
                         [@ EXCEPT !.entries = r.entries,
                                   !.yielded = Append(@, r.ret.val)]]
                   /\ locks' = [p \in DOMAIN locks |->
                         IF p = r.entries.table_idx THEN t ELSE NoThread]
              ELSE /\ session' = [session EXCEPT ![t] =
                         [pc |-> "done", yielded |-> @.yielded]]
                   /\ locks' = [p \in DOMAIN locks |-> NoThread]
    /\ UNCHANGED << inodes, content, inode_counter, fallback_paths, callers, last,
                    issued, replied, kernel, forgotten >>

\* insert and remove by the other thread, on a partition that the Entries
\* does not hold
IterInsert ==
    /\ \E k \in IterKeys :
         LET v == inserts_of(content[k]) + 1
         IN  /\ v <= MaxInserts
             /\ locks[table_of(inodes, k)] = NoThread
             /\ inodes' = insert(inodes, k, v).map
             /\ content' = [content EXCEPT ![k] = Some(v)]
             /\ last' = [op |-> "insert", key |-> k]
    /\ UNCHANGED << inode_counter, fallback_paths, callers, locks, session, issued,
                    replied, kernel, forgotten >>

IterRemove ==
    /\ \E k \in IterKeys :
         /\ locks[table_of(inodes, k)] = NoThread
         /\ inodes' = remove(inodes, k).map
         /\ content' = [content EXCEPT ![k] = Absent("remove", inserts_of(@))]
         /\ last' = [op |-> "remove", key |-> k]
    /\ UNCHANGED << inode_counter, fallback_paths, callers, locks, session, issued,
                    replied, kernel, forgotten >>

NextIter ==
    \/ Iter(1)
    \/ EntriesNext(1)
    \/ IterInsert
    \/ IterRemove

SpecIter == InitIter /\ [][NextIter]_vars

(***************************************************************************)
(* iter() step by step at its locks: next() runs up to each lock() and     *)
(* each drop of a guard in next_table, while another thread inserts.       *)
(***************************************************************************)
\* next() calls next_table before it returns: the table of the Entries has
\* no entry left from its bucket on and is not the last one
calls_next_table(map, entries) ==
    LET table == map.tables[entries.table_idx]
    IN  /\ entries.table_idx + 1 # map.table_mask + 1
        /\ \/ entries.bucket = table.capacity
           \/ ~iter_advance(table, entries.bucket).ret.some

\* next_table up to the return of lock(): the guard of the table before is
\* still in self.table
NextTableLock(t) ==
    /\ session[t].pc = "entries"
    /\ calls_next_table(inodes, session[t].entries)
    /\ locks[session[t].entries.table_idx + 1] = NoThread
    /\ locks' = [locks EXCEPT ![session[t].entries.table_idx + 1] = t]
    /\ session' = [session EXCEPT ![t] = [@ EXCEPT !.pc = "next_table"]]
    /\ UNCHANGED << inodes, content, inode_counter, fallback_paths, callers, last,
                    issued, replied, kernel, forgotten >>

\* next_table: the assignment to self.table drops the guard of the table
\* before
NextTableDrop(t) ==
    /\ session[t].pc = "next_table"
    /\ locks' = [locks EXCEPT ![session[t].entries.table_idx] = NoThread]
    /\ session' = [session EXCEPT ![t] =
           [@ EXCEPT !.pc = "entries", !.entries = next_table(@)]]
    /\ UNCHANGED << inodes, content, inode_counter, fallback_paths, callers, last,
                    issued, replied, kernel, forgotten >>

\* The rest of a call of next(), in the table it returns from
EntriesReturn(t) ==
    /\ session[t].pc = "entries"
    /\ ~calls_next_table(inodes, session[t].entries)
    /\ EntriesNext(t)

NextIterLocks ==
    \/ Iter(1)
    \/ NextTableLock(1)
    \/ NextTableDrop(1)
    \/ EntriesReturn(1)
    \/ IterInsert

SpecIterLocks == InitIter /\ [][NextIterLocks]_vars

(***************************************************************************)
(* The locking specification: the handlers of EnvFs step by step at their  *)
(* locks.  A worker spins until the Mutex of a partition is free and       *)
(* blocks until an RwLock is free; a guard gives its lock back when it is  *)
(* dropped, also while a panic unwinds.  locks maps every lock of the      *)
(* filesystem to the worker that holds it.  While a worker is at "resolve" *)
(* it is inside resolve_target, reading /proc and probing directories.     *)
(***************************************************************************)
\* self.inodes.tables[p]
TableLock(p) == <<"table", p>>

\* self.inode_counter
CounterLock == <<"counter", 0>>

\* inode.nlookup of the inode with the number ino
NlookupLock(ino) == <<"nlookup", ino>>

\* The locks a worker holds
Held(w) == {l \in DOMAIN locks : locks[l] = w}

\* The workers that are in a lookup and have not taken their inode number
Allocating ==
    {w \in Workers :
        \/ session[w].pc \in {"counter", "counter_write"}
        \/ session[w].pc = "resolve" /\ session[w].op = "lookup"}

InitLocks ==
    /\ inodes = ConcHashMap_new(MixHash)
    /\ inode_counter = InodeCounter_new
    /\ fallback_paths = <<"/run/fb">>
    /\ callers = LifecycleCallers
    /\ session = [w \in Workers |-> Idle]
    /\ last = [op |-> "init"]
    /\ issued = << >>
    /\ replied = {}
    /\ kernel = {}
    /\ forgotten = {}
    /\ content = << >>
    /\ locks = [l \in {TableLock(p) : p \in DOMAIN inodes.tables} \cup {CounterLock}
                        \cup {NlookupLock(ino) : ino \in Inos} |-> NoThread]

\* lookup up to the call of resolve_target
LookupEnter(w) ==
    /\ session[w].pc = "idle"
    /\ Len(issued) + Cardinality(Allocating) < MaxIssued
    /\ \E parent \in {FUSE_ROOT_ID, FUSE_ROOT_ID + 1}, c \in callers :
         session' = [session EXCEPT ![w] =
            IF parent # FUSE_ROOT_ID
            THEN Idle
            ELSE [pc |-> "resolve", op |-> "lookup", name |-> c.name,
                  pid |-> c.pid, world |-> c.world]]
    /\ UNCHANGED << inodes, inode_counter, fallback_paths, callers, last, issued,
                    replied, kernel, forgotten, content, locks >>

\* lookup: the return of resolve_target
LookupResolved(w) ==
    /\ session[w].pc = "resolve"
    /\ session[w].op = "lookup"
    /\ LET l        == session[w]
           resolved == resolve_target(l.world, l.name, fallback_paths)
       IN  session' = [session EXCEPT ![w] =
              IF resolved.ret.some
              THEN [pc |-> "counter", name |-> l.name, pid |-> l.pid,
                    exe |-> resolved.ret.val]
              ELSE Idle]
    /\ UNCHANGED << inodes, inode_counter, fallback_paths, callers, last, issued,
                    replied, kernel, forgotten, content, locks >>

\* next_inode_number: self.inode_counter.write().unwrap()
CounterWrite(w) ==
    /\ session[w].pc = "counter"
    /\ locks[CounterLock] = NoThread
    /\ locks' = [locks EXCEPT ![CounterLock] = w]
    /\ session' = [session EXCEPT ![w] = [@ EXCEPT !.pc = "counter_write"]]
    /\ UNCHANGED << inodes, inode_counter, fallback_paths, callers, last, issued,
                    replied, kernel, forgotten, content >>

\* next_inode_number from the read of next_number to its return, where the
\* guard is dropped
CounterDrop(w) ==
    /\ session[w].pc = "counter_write"
    /\ LET l     == session[w]
           alloc == next_inode_number(inode_counter)
       IN  /\ inode_counter' = alloc.counter
           /\ issued' = Append(issued, alloc.ret)
           /\ session' = [session EXCEPT ![w] =
                 [pc |-> "insert", name |-> l.name, pid |-> l.pid, exe |-> l.exe,
                  next_number |-> alloc.ret[1], generation |-> alloc.ret[2]]]
    /\ locks' = [locks EXCEPT ![CounterLock] = NoThread]
    /\ UNCHANGED << inodes, fallback_paths, callers, last, replied, kernel,
                    forgotten, content >>

\* lookup: self.inodes.insert(next_number, inode) up to the lock() in it
LookupInsertLock(w) ==
    /\ session[w].pc = "insert"
    /\ LET p == table_of(inodes, session[w].next_number)
       IN  /\ locks[TableLock(p)] = NoThread
           /\ locks' = [locks EXCEPT ![TableLock(p)] = w]
    /\ session' = [session EXCEPT ![w] = [@ EXCEPT !.pc = "insert_locked"]]
    /\ UNCHANGED << inodes, inode_counter, fallback_paths, callers, last, issued,
                    replied, kernel, forgotten, content >>

\* lookup: the put, the return of insert and the assertion on its result
LookupInsertPut(w) ==
    /\ session[w].pc = "insert_locked"
    /\ LET l == session[w]
           r == insert(inodes, l.next_number,
                       Inode(l.name, l.exe, l.pid, symlink_attr(l.next_number)))
       IN  /\ inodes' = r.map
           /\ session' = [session EXCEPT ![w] =
                 IF r.ret.some THEN Panicked ELSE Idle]
           /\ locks' = [locks EXCEPT
                 ![TableLock(table_of(inodes, l.next_number))] = NoThread]
    /\ UNCHANGED << inode_counter, fallback_paths, callers, last, issued, replied,
                    kernel, forgotten, content >>

\* EnvFs::inode as it would be if it returned the Accessor.
inode_guard_kept(w) == w

\* The holder of the partition's Mutex when EnvFs::inode has returned: the
\* Accessor is a temporary of the match in it
inode_guard(w) == NoThread

\* getattr, statfs and readlink up to the return of find in EnvFs::inode;
\* getattr replies for FUSE_ROOT_ID without it
InodeFind(w) ==
    /\ session[w].pc = "idle"
    /\ \E op \in {"getattr", "statfs", "readlink"}, ino \in RequestInos, c \in callers :
         IF op = "getattr" /\ ino = FUSE_ROOT_ID
         THEN UNCHANGED << session, locks >>
         ELSE LET p     == table_of(inodes, ino)
                  found == find(inodes, ino)
              IN  /\ locks[TableLock(p)] = NoThread
                  /\ locks' = [locks EXCEPT ![TableLock(p)] = find_guard(w, found)]
                  /\ session' = [session EXCEPT ![w] =
                        IF ~found.some
                        THEN Idle
                        ELSE IF op = "readlink"
                        THEN [pc |-> "accessor", op |-> op, ino |-> ino,
                              pid |-> c.pid, world |-> c.world]
                        ELSE [pc |-> "accessor", op |-> op, ino |-> ino]]
    /\ UNCHANGED << inodes, inode_counter, fallback_paths, callers, last, issued,
                    replied, kernel, forgotten, content >>

\* Arc::clone(inode.get()) and the return of EnvFs::inode; getattr, statfs
\* and a readlink of the creator reply, another readlink calls
\* resolve_target
InodeClone(w) ==
    /\ session[w].pc = "accessor"
    /\ LET l == session[w]
           i == find(inodes, l.ino).val
       IN  /\ locks' = [locks EXCEPT
                 ![TableLock(table_of(inodes, l.ino))] = inode_guard(w)]
           /\ session' = [session EXCEPT ![w] =
                 IF l.op = "readlink" /\ i.pid # l.pid
                 THEN [pc |-> "resolve", op |-> "readlink", name |-> i.name,
                       pid |-> l.pid, world |-> l.world]
                 ELSE Idle]
    /\ UNCHANGED << inodes, inode_counter, fallback_paths, callers, last, issued,
                    replied, kernel, forgotten, content >>

\* readlink: the return of resolve_target and the reply
ReadlinkResolved(w) ==
    /\ session[w].pc = "resolve"
    /\ session[w].op = "readlink"
    /\ session' = [session EXCEPT ![w] = Idle]
    /\ UNCHANGED << inodes, inode_counter, fallback_paths, callers, last, issued,
                    replied, kernel, forgotten, content, locks >>

\* forget up to the return of find_mut
ForgetFindMut(w) ==
    /\ session[w].pc = "idle"
    /\ \E ino \in RequestInos, nlookup \in 0 .. MaxForget :
         LET p     == table_of(inodes, ino)
             found == find(inodes, ino)
         IN  /\ locks[TableLock(p)] = NoThread
             /\ locks' = [locks EXCEPT ![TableLock(p)] = find_guard(w, found)]
             /\ session' = [session EXCEPT ![w] =
                   IF found.some
                   THEN [pc |-> "forget_found", ino |-> ino, nlookup |-> nlookup]
                   ELSE Idle]
    /\ UNCHANGED << inodes, inode_counter, fallback_paths, callers, last, issued,
                    replied, kernel, forgotten, content >>

\* forget: inode.nlookup.write().unwrap(), which panics on a poisoned lock
ForgetWrite(w) ==
    /\ session[w].pc = "forget_found"
    /\ LET l   == session[w]
           old == find(inodes, l.ino).val.nlookup
       IN  /\ locks[NlookupLock(l.ino)] = NoThread
           /\ IF old.poisoned
              THEN /\ locks' = [locks EXCEPT
                         ![TableLock(table_of(inodes, l.ino))] = NoThread]
                   /\ session' = [session EXCEPT ![w] = Panicked]
              ELSE /\ locks' = [locks EXCEPT ![NlookupLock(l.ino)] = w]
                   /\ session' = [session EXCEPT ![w] = [@ EXCEPT !.pc = "forget_write"]]
    /\ UNCHANGED << inodes, inode_counter, fallback_paths, callers, last, issued,
                    replied, kernel, forgotten, content >>

\* forget as it would be if it called remove inside the match arm.
forget_guard_kept(w) == w

\* The holder of the partition's Mutex when forget reaches its remove: the
\* MutAccessor is dropped at the end of the match
forget_guard(w) == NoThread

\* forget: the assertion, the subtraction and the end of the match, where
\* the guard of nlookup and the MutAccessor are dropped
ForgetDecrement(w) ==
    /\ session[w].pc = "forget_write"
    /\ LET l     == session[w]
           p     == table_of(inodes, l.ino)
           found == find(inodes, l.ino)
           old   == found.val.nlookup
       IN  IF ~(old.value >= l.nlookup)
           THEN /\ inodes' = write_found(inodes, l.ino,
                                [found.val EXCEPT !.nlookup.poisoned = TRUE])
                /\ locks' = [locks EXCEPT ![NlookupLock(l.ino)] = NoThread,
                                          ![TableLock(p)] = NoThread]
                /\ session' = [session EXCEPT ![w] = Panicked]
           ELSE /\ inodes' = write_found(inodes, l.ino,
                                [found.val EXCEPT !.nlookup.value = old.value - l.nlookup])
                /\ IF old.value - l.nlookup # 0
                   THEN /\ locks' = [locks EXCEPT ![NlookupLock(l.ino)] = NoThread,
                                                  ![TableLock(p)] = NoThread]
                        /\ session' = [session EXCEPT ![w] = Idle]
                   ELSE /\ locks' = [locks EXCEPT ![NlookupLock(l.ino)] = NoThread,
                                                  ![TableLock(p)] = forget_guard(w)]
                        /\ session' = [session EXCEPT ![w] =
                               [pc |-> "forget_remove", ino |-> l.ino]]
    /\ UNCHANGED << inode_counter, fallback_paths, callers, last, issued, replied,
                    kernel, forgotten, content >>

\* forget: self.inodes.remove(&ino) up to the lock() in it
ForgetRemoveLock(w) ==
    /\ session[w].pc = "forget_remove"
    /\ LET p == table_of(inodes, session[w].ino)
       IN  /\ locks[TableLock(p)] = NoThread
           /\ locks' = [locks EXCEPT ![TableLock(p)] = w]
    /\ session' = [session EXCEPT ![w] = [@ EXCEPT !.pc = "forget_remove_locked"]]
    /\ UNCHANGED << inodes, inode_counter, fallback_paths, callers, last, issued,
                    replied, kernel, forgotten, content >>

\* forget: Table::remove and the return of remove
ForgetRemoveKey(w) ==
    /\ session[w].pc = "forget_remove_locked"
    /\ inodes' = remove(inodes, session[w].ino).map
    /\ locks' = [locks EXCEPT
          ![TableLock(table_of(inodes, session[w].ino))] = NoThread]
    /\ session' = [session EXCEPT ![w] = Idle]
    /\ UNCHANGED << inode_counter, fallback_paths, callers, last, issued, replied,
                    kernel, forgotten, content >>

\* The partition whose Mutex matters in the step of clear that starts at
\* `from`: the next one that a key hashes to, or the last partition
clear_lock(map, from) ==
    LET later == {p \in key_tables(map) : p >= from}
    IN  IF later = {} THEN map.table_mask
        ELSE CHOOSE p \in later : \A q \in later : p <= q

\* destroy: table.lock() of that partition
DestroyLock(w) ==
    /\ session[w].pc \in {"idle", "destroy"}
    /\ LET from == IF session[w].pc = "idle" THEN 0 ELSE session[w].table
           p    == clear_lock(inodes, from)
       IN  /\ locks[TableLock(p)] = NoThread
           /\ locks' = [locks EXCEPT ![TableLock(p)] = w]
           /\ session' = [session EXCEPT ![w] =
                 [pc |-> "destroy_locked", from |-> from, table |-> p]]
    /\ UNCHANGED << inodes, inode_counter, fallback_paths, callers, last, issued,
                    replied, kernel, forgotten, content >>

\* destroy: clear() of the partition and the drop of its guard
DestroyClear(w) ==
    /\ session[w].pc = "destroy_locked"
    /\ LET l    == session[w]
           upto == clear_upto(inodes, l.from)
       IN  /\ inodes' = clear_tables(inodes, l.from, upto)
           /\ locks' = [locks EXCEPT ![TableLock(l.table)] = NoThread]
           /\ session' = [session EXCEPT ![w] =
                 IF upto = inodes.table_mask
                 THEN Destroyed
                 ELSE [pc |-> "destroy", table |-> upto + 1]]
    /\ UNCHANGED << inode_counter, fallback_paths, callers, last, issued, replied,
                    kernel, forgotten, content >>

NextLocks ==
    \E w \in Workers :
        \/ LookupEnter(w)
        \/ LookupResolved(w)
        \/ CounterWrite(w)
        \/ CounterDrop(w)
        \/ LookupInsertLock(w)
        \/ LookupInsertPut(w)
        \/ InodeFind(w)
        \/ InodeClone(w)
        \/ ReadlinkResolved(w)
        \/ ForgetFindMut(w)
        \/ ForgetWrite(w)
        \/ ForgetDecrement(w)
        \/ ForgetRemoveLock(w)
        \/ ForgetRemoveKey(w)
        \/ DestroyLock(w)
        \/ DestroyClear(w)

SpecLocks == InitLocks /\ [][NextLocks]_vars

(***************************************************************************)
(* Claims                                                                  *)
(***************************************************************************)
\* C1: every (ino, generation) pair the InodeCounter issues differs from
\* every pair it issued earlier, also across a wrap of the counter.
C1_PairsAreUnique ==
    \A i, j \in 1 .. Len(issued) : i # j => issued[i] # issued[j]

\* An inode number was replied twice, before and after a wrap.
C1_Witness ==
    \E p, q \in replied : p[1] = q[1] /\ p[2] < q[2]

\* C2: no two successful lookups receive the same inode number, and the
\* insert of a new inode never finds its key present (the assertion in
\* lookup never fails).
C2_NoDuplicateInoAndInsertFindsNothing ==
    /\ \A p, q \in replied : p[1] = q[1] => p = q
    /\ ~(last.op = "lookup" /\ last.reply = ReplyPanic)

\* C3: from the entry reply of a lookup until a forget brings the inode's
\* nlookup to zero or destroy runs, find(ino) is Some and the inode found has
\* the looked-up name and the resolved path.
C3_RepliedEntryIsFound ==
    \A k \in kernel :
        LET found == find(inodes, k.ino)
        IN  /\ found.some
            /\ found.val.name = k.name
            /\ found.val.path = k.path

\* C4: once a forget that brought nlookup to zero has returned, and for as
\* long as the inode number has not been replied again, find(ino) is None
\* and getattr(ino) and readlink(ino) reply ESTALE.
C4_ForgottenIsGone ==
    \A ino \in forgotten :
        /\ ~find(inodes, ino).some
        /\ getattr(inodes, ino) = ReplyError("ESTALE")
        /\ \A c \in callers :
              readlink(inodes, ino, c.pid, c.world, fallback_paths).reply =
                  ReplyError("ESTALE")

(***************************************************************************)
(* What the claims about resolution say of a world, read off the world     *)
(* itself.                                                                 *)
(***************************************************************************)
\* The syscall file is a line of numbers
SyscallKnown(world) ==
    /\ world.syscall.ok
    /\ Len(world.syscall.val) >= 1
    /\ \A i \in 1 .. Len(world.syscall.val) : world.syscall.val[i].num

SyscallNotAllowed(world) ==
    /\ SyscallKnown(world)
    /\ world.syscall.val[1].val \notin {SYS_open, SYS_openat, SYS_execve}

InExecve(world) ==
    /\ SyscallKnown(world)
    /\ Len(world.syscall.val) >= 4
    /\ world.syscall.val[1].val = SYS_execve

AlwaysUndefined(world) ==
    world.environ.ok =>
        \A i \in 1 .. Len(world.environ.val) :
            world.environ.val[i].key # "ENVFS_RESOLVE_ALWAYS"

\* name can be executed in directory dir, and dir is not one to skip
Usable(world, dir, name) ==
    /\ dir \in DOMAIN world.dirs
    /\ world.dirs[dir].nlink # ENVFS_MAGIC
    /\ name \in world.dirs[dir].exec

Served(world, dir) ==
    /\ dir \in DOMAIN world.dirs
    /\ world.dirs[dir].served \/ world.dirs[dir].nlink = ENVFS_MAGIC

\* The PATH values of a block of records
PathsOf(block) ==
    IF block.ok
    THEN {block.val[i].val : i \in {j \in 1 .. Len(block.val) :
                                       block.val[j].key = "PATH" /\ block.val[j].eq}}
    ELSE {}

\* The block the envp of the execve names
NewEnviron(world) == world.mem[world.syscall.val[4].val]

\* The directories a path value names
DirsOf(path) == {path[i] : i \in {j \in 1 .. Len(path) : path[j] # ":"}}

\* The first directory of a path value where name is usable
FirstUsable(world, path, name) ==
    LET usable == {i \in 1 .. Len(path) : path[i] # ":" /\ Usable(world, path[i], name)}
    IN  path[CHOOSE i \in usable : \A j \in usable : i <= j]

\* Every directory a caller in the world can name: on a PATH, or as fallback
NamedDirs(world) ==
    UNION {DirsOf(path) : path \in PathsOf(world.environ)} \cup
    UNION {UNION {DirsOf(path) : path \in PathsOf(world.mem[a])} : a \in DOMAIN world.mem} \cup
    {fallback_paths[i] : i \in 1 .. Len(fallback_paths)}

RootLookup == last.op = "lookup" /\ last.req.parent = FUSE_ROOT_ID

\* The inode that the entry reply of the last event is about
RepliedInode == find(inodes, last.reply.attr.ino).val

\* C5: readlink by the PID that created the inode replies the path stored
\* at creation and does not resolve again, whatever the world of that
\* process is by then.
C5_SamePidReadsStoredPath ==
    last.op = "readlink" =>
        \A k \in kernel :
            (k.ino = last.ino /\ k.pid = last.pid) =>
                /\ last.reply = ReplyData(k.path)
                /\ ~last.resolved

\* The creator reads the link in a world where resolution finds nothing.
C5_Witness ==
    /\ last.op = "readlink"
    /\ \E k \in kernel :
          /\ k.ino = last.ino /\ k.pid = last.pid
          /\ SyscallNotAllowed(last.world)
          /\ last.reply = ReplyData(k.path)

\* C6: a lookup by a caller whose syscall is not allowed and who has no
\* ENVFS_RESOLVE_ALWAYS, with an empty fallback list, replies ENOENT.
C6_NotAllowedIsENOENT ==
    (/\ RootLookup
     /\ SyscallNotAllowed(last.req.world)
     /\ AlwaysUndefined(last.req.world)
     /\ fallback_paths = << >>)
        => last.reply = ReplyError("ENOENT")

\* Such a lookup, for a name that is executable on the caller's PATH.
C6_Witness ==
    /\ RootLookup
    /\ SyscallNotAllowed(last.req.world)
    /\ AlwaysUndefined(last.req.world)
    /\ fallback_paths = << >>
    /\ \E path \in PathsOf(last.req.world.environ) :
          \E dir \in DirsOf(path) : Usable(last.req.world, dir, last.req.name)
    /\ last.reply = ReplyError("ENOENT")

\* C7: with a syscall that is not allowed and the name executable in a
\* fallback directory, lookup replies an entry whose target is the fallback
\* executable, and statfs on it replies the populated structure.
C7_FallbackRegardlessOfAllowed ==
    (/\ RootLookup
     /\ last.req.world.environ.ok
     /\ SyscallNotAllowed(last.req.world)
     /\ \E i \in 1 .. Len(fallback_paths) :
           Usable(last.req.world, fallback_paths[i], last.req.name))
        => /\ last.reply.type = "entry"
           /\ RepliedInode.path =
                 PathJoin(FirstUsable(last.req.world, fallback_paths, last.req.name),
                          last.req.name)
           /\ statfs(inodes, last.reply.attr.ino) = ReplyStatfs

\* C8: inside an execve whose new environment is readable, a name that is
\* executable in a directory of the new PATH resolves to the first such
\* directory, whatever the PATH of /proc/<pid>/environ is.
C8_ExecveUsesNewPath ==
    (/\ RootLookup
     /\ last.req.world.environ.ok
     /\ InExecve(last.req.world)
     /\ NewEnviron(last.req.world).ok
     /\ \E path \in PathsOf(NewEnviron(last.req.world)) :
           \E dir \in DirsOf(path) : Usable(last.req.world, dir, last.req.name))
        => /\ last.reply.type = "entry"
           /\ \E path \in PathsOf(NewEnviron(last.req.world)) :
                 RepliedInode.path =
                     PathJoin(FirstUsable(last.req.world, path, last.req.name),
                              last.req.name)

\* Such a lookup, the name not being executable on the old PATH.
C8_Witness ==
    /\ RootLookup
    /\ InExecve(last.req.world)
    /\ NewEnviron(last.req.world).ok
    /\ PathsOf(last.req.world.environ) # {}
    /\ \A path \in PathsOf(last.req.world.environ) :
          \A dir \in DirsOf(path) : ~Usable(last.req.world, dir, last.req.name)
    /\ last.reply.type = "entry"
    /\ RepliedInode.path.dir = "/new/bin"

\* C9: resolution probes no entry of a directory that this filesystem
\* serves, and returns no path inside one.
C9_ServedDirectoryIsSkipped ==
    RootLookup =>
        /\ \A probed \in last.accessed : ~Served(last.req.world, probed.dir)
        /\ last.reply.type = "entry" => ~Served(last.req.world, RepliedInode.path.dir)

\* C10: readlink by another PID than the creator's resolves the stored name
\* again for that PID: ENOENT if the name is executable in no directory the
\* PID names, else what resolution gives that PID; the stored inode keeps
\* its path, pid and nlookup.
C10_OtherPidResolvesAgain ==
    last.op = "readlink" =>
        \A k \in kernel :
            (k.ino = last.ino /\ k.pid # last.pid) =>
                LET again  == resolve_target(last.world, k.name, fallback_paths).ret
                    stored == find(inodes, k.ino).val
                IN  /\ last.resolved
                    /\ (\A dir \in NamedDirs(last.world) :
                           ~Usable(last.world, dir, k.name))
                          => last.reply = ReplyError("ENOENT")
                    /\ last.reply = IF again.some THEN ReplyData(again.val.path)
                                    ELSE ReplyError("ENOENT")
                    /\ last.reply.type = "data" =>
                          /\ last.reply.data.name = k.name
                          /\ Usable(last.world, last.reply.data.dir, k.name)
                    /\ stored.path = k.path
                    /\ stored.pid = k.pid
                    /\ stored.nlookup = [value |-> 1, poisoned |-> FALSE]

\* Another PID reads the link and is given another path than the stored one.
C10_Witness ==
    /\ last.op = "readlink"
    /\ \E k \in kernel :
          /\ k.ino = last.ino /\ k.pid # last.pid
          /\ last.reply.type = "data"
          /\ last.reply.data # k.path

\* C11: which returns the hit of the first directory of PATH, in list order,
\* that is not skipped and has the name executable, else that of the first
\* such fallback directory, and None only if there is neither; and it tries
\* every directory of PATH it tries before it tries any fallback directory.
C11_PathBeforeFallbackFirstHitWins ==
    last.op = "which" =>
        LET world      == last.world
            name       == last.exe_name
            path_hit   == \E dir \in DirsOf(last.path_env) : Usable(world, dir, name)
            fb_hit     == \E i \in 1 .. Len(fallback_paths) :
                              Usable(world, fallback_paths[i], name)
        IN  /\ path_hit =>
                  /\ last.ret.some
                  /\ last.ret.val.path =
                        PathJoin(FirstUsable(world, last.path_env, name), name)
            /\ (~path_hit /\ fb_hit) =>
                  /\ last.ret.some
                  /\ last.ret.val.path =
                        PathJoin(FirstUsable(world, fallback_paths, name), name)
            /\ (~path_hit /\ ~fb_hit) => last.ret = None
            /\ \A i, j \in 1 .. Len(last.tried) :
                  (last.tried[i].list = "path_env" /\
                   last.tried[j].list = "fallback_paths") => i < j

(***************************************************************************)
(* What the claims about the map say of a key, read off the calls made.    *)
(***************************************************************************)
\* The value a map without flaw holds for the key
Mapping(k) == IF content[k].some THEN Some(content[k].val) ELSE None

\* C12: for every hash function, also one that gives every key the same
\* hash, and through every growth of a partition: find(k) returns the value
\* of the latest insert of k as long as no remove or clear came after it,
\* and None for a key that was never inserted.
C12_FindReturnsLatestInsert ==
    \A k \in DOMAIN content :
        /\ content[k].some => find(inodes, k) = Some(content[k].val)
        /\ (~content[k].some /\ content[k].by = "new") => find(inodes, k) = None

\* C13: after any sequence of inserts and removes, from the return of
\* remove(k) until the next insert of k, find(k) is None.
C13_RemovedIsNotFound ==
    \A k \in DOMAIN content :
        (~content[k].some /\ content[k].by = "remove") => find(inodes, k) = None

\* C14: in every reachable state of the map, insert(k, v) returns the value
\* mapped to k if there is one and None if there is none, and find(k)
\* returns v afterwards.
C14_InsertReturnsPrevious ==
    \A k \in DOMAIN content, v \in 1 .. MaxInserts :
        LET r == insert(inodes, k, v)
        IN  /\ r.ret = Mapping(k)
            /\ find(r.map, k) = Some(v)

\* C15: in every reachable state of the map, remove(k) returns the value
\* mapped to k if there is one and None if there is none, and find of every
\* other key returns after it what it returned before it.
C15_RemoveReturnsValueAndKeepsOthers ==
    \A k \in DOMAIN content :
        LET r == remove(inodes, k)
        IN  /\ r.ret = Mapping(k)
            /\ \A j \in DOMAIN content \ {k} : find(r.map, j) = find(inodes, j)

\* C16: when keys were inserted, some of them then removed and some of the
\* removed ones then inserted again with a new value, find returns the new
\* value for a key inserted again, None for a removed key that was not, and
\* the first value for a key that was not removed.
C16_RemoveThenInsertAgain ==
    \A k \in DOMAIN content :
        /\ content[k] = Some(2) => find(inodes, k) = Some(2)
        /\ content[k] = Absent("remove", 1) => find(inodes, k) = None
        /\ content[k] = Some(1) => find(inodes, k) = Some(1)

\* Of three keys on one probe sequence the first was removed and inserted
\* again, the second was removed and has left a tombstone, and the third,
\* behind both, was not removed.
C16_Witness ==
    \E a, b, c \in DOMAIN content :
        /\ content[a] = Some(2) /\ find(inodes, a) = Some(2)
        /\ content[b] = Absent("remove", 1) /\ find(inodes, b) = None
        /\ content[c] = Some(1) /\ find(inodes, c) = Some(1)
        /\ hash(inodes, a) = hash(inodes, b) /\ hash(inodes, b) = hash(inodes, c)
        /\ LET t == inodes.tables[table_for(inodes, hash(inodes, c))]
               at(k) == Table_lookup(t, hash(inodes, k), k).val
           IN  \E i \in 0 .. t.capacity - 1 :
                  /\ is_deleted(t, i)
                  /\ at(a) < i /\ i < at(c)

\* C17: upsert(k, 1, increment) maps k to 1 if k has no mapping and adds 1
\* to the value of k if it has one; whatever the interleaving of the threads,
\* a key whose partition no thread is working on is found with the number
\* of upserts of it since it was last without a mapping, as in a sequential
\* count.
C17_UpsertCountsLikeSequential ==
    \A k \in DOMAIN content :
        locks[table_of(inodes, k)] = NoThread =>
            /\ content[k].some => find(inodes, k) = Some(content[k].val)
            /\ find(upsert(inodes, k, 1, "increment"), k) =
                  IF content[k].some THEN Some(content[k].val + 1) ELSE Some(1)

\* C18: while the threads insert their own keys, each with the number of
\* its thread as value, no find returns a value other than the one inserted
\* for its key: an Accessor points at a present bucket of the key it was
\* found for, whose value is that of the key's thread, also after the
\* partition has grown, and no thread returns Err.
C18_FindReturnsNoneOrOwnValue ==
    \A t \in Workers :
        /\ session[t].pc # "err"
        /\ session[t].pc = "accessor" =>
              LET table == inodes.tables[table_of(inodes, session[t].key)]
              IN  /\ is_present(table, session[t].idx)
                  /\ table.keys[session[t].idx] = session[t].key
                  /\ table.values[session[t].idx] = owner(session[t].key)
                  /\ accessor_get(table, session[t].idx) = {owner(session[t].key)}

\* A thread holds the Accessor of a key of another thread, in a partition
\* that has grown twice, while that other thread waits for the partition
\* with its next insert.
C18_Witness ==
    \E t, u \in Workers :
        /\ session[t].pc = "accessor"
        /\ owner(session[t].key) = u /\ u # t
        /\ inodes.tables[table_of(inodes, session[t].key)].capacity > 64
        /\ session[u].pc = "idle"
        /\ session[u].calls = 2
        /\ table_of(inodes, (u - 1) * KeysPerThread + 2) =
              table_of(inodes, session[t].key)

\* C19: statfs on an inode of the table replies the placeholder structure,
\* with block size 4096 and name length 255, if the inode's fallback_path is
\* true, and ENOENT if it is false.
C19_StatfsRepliesByFallbackPath ==
    (last.op = "statfs" /\ find(inodes, last.ino).some) =>
        IF find(inodes, last.ino).val.fallback_path
        THEN /\ last.reply = ReplyStatfs
             /\ last.reply.type = "statfs"
             /\ last.reply.bsize = 4096
             /\ last.reply.namelen = 255
        ELSE last.reply = ReplyError("ENOENT")

\* statfs has replied the structure for an inode with a fallback path.
C19_Witness ==
    /\ last.op = "statfs"
    /\ find(inodes, last.ino).some
    /\ find(inodes, last.ino).val.fallback_path
    /\ last.reply = ReplyStatfs

\* A record KEY=value of environ defines ENVFS_RESOLVE_ALWAYS
AlwaysDefined(world) ==
    \E i \in 1 .. Len(world.environ.val) :
        /\ world.environ.val[i].key = "ENVFS_RESOLVE_ALWAYS"
        /\ world.environ.val[i].eq

\* The directories on the PATH values of a block of records
PathDirs(block) == UNION {DirsOf(path) : path \in PathsOf(block)}

\* The environment whose PATH applies to the caller: the one the envp of an
\* execve names if it can be read, that of /proc/<pid>/environ otherwise.
\* The register an execveat would name reads no block in any world.
AppliedEnviron(world) ==
    IF InExecve(world) /\ NewEnviron(world).ok
    THEN NewEnviron(world)
    ELSE world.environ

\* C20: the directories of the caller's PATH are searched if and only if
\* the caller's syscall is open, openat, execve or execveat (322), or its
\* environment defines ENVFS_RESOLVE_ALWAYS; stated for a caller with a
\* complete syscall line and a name that is executable in a directory of
\* the PATH that applies.
C20_SearchPermittedBySyscall ==
    (/\ RootLookup
     /\ last.req.world.environ.ok
     /\ SyscallKnown(last.req.world)
     /\ Len(last.req.world.syscall.val) = 9
     /\ \E dir \in PathDirs(AppliedEnviron(last.req.world)) :
           Usable(last.req.world, dir, last.req.name))
        => ((\/ last.req.world.syscall.val[1].val \in
                   {SYS_open, SYS_openat, SYS_execve, 322}
             \/ AlwaysDefined(last.req.world))
            <=> \E probed \in last.accessed :
                    probed.dir \in PathDirs(AppliedEnviron(last.req.world)))

\* C21: a lookup whose parent is not FUSE_ROOT_ID, or whose name contains a
\* '/', replies ENOENT, has called access on no path, and allocates no
\* inode number.
C21_LookupRejectsParentAndSlash ==
    /\ (/\ last.op = "lookup"
        /\ \/ last.req.parent # FUSE_ROOT_ID
           \/ last.req.name \in SlashNames)
          => /\ last.reply = ReplyError("ENOENT")
             /\ last.accessed = {}
    /\ \A w \in Workers :
          session[w].pc = "lookup_insert" =>
              /\ session[w].req.parent = FUSE_ROOT_ID
              /\ session[w].req.name \notin SlashNames

\* The reasons for which a lookup of name by a caller in the world has no
\* target: environ cannot be read; the syscall file cannot be read or is
\* not a line of numbers; the syscall is not allowed and no record defines
\* ENVFS_RESOLVE_ALWAYS; the name is executable in no directory that PATH,
\* the new environment of an execve or the fallback list names.
NoTarget(world, name) ==
    \/ ~world.environ.ok
    \/ ~SyscallKnown(world)
    \/ SyscallNotAllowed(world) /\ ~AlwaysDefined(world)
    \/ \A dir \in NamedDirs(world) : ~Usable(world, dir, name)

\* The memory the envp of an execve names cannot be read
EnvpUnreadable(world) ==
    /\ world.environ.ok
    /\ InExecve(world)
    /\ ~NewEnviron(world).ok

\* C22: a lookup on the root that has no target, for any of the reasons
\* above, replies ENOENT; a lookup whose envp memory cannot be read replies
\* ENOENT or an entry, never another errno and never by a panic.
C22_NoTargetIsENOENT ==
    RootLookup =>
        /\ NoTarget(last.req.world, last.req.name) =>
              last.reply = ReplyError("ENOENT")
        /\ EnvpUnreadable(last.req.world) =>
              \/ last.reply = ReplyError("ENOENT")
              \/ last.reply.type = "entry"

\* A lookup by a caller whose syscall file cannot be read or parsed, for a
\* name that is executable on its PATH, has replied ENOENT.
C22_Witness ==
    /\ RootLookup
    /\ last.req.world.environ.ok
    /\ ~SyscallKnown(last.req.world)
    /\ \E path \in PathsOf(last.req.world.environ) :
          \E dir \in DirsOf(path) : Usable(last.req.world, dir, last.req.name)
    /\ last.reply = ReplyError("ENOENT")

\* C23: getattr of FUSE_ROOT_ID replies a directory with perm 0o755 and
\* nlink 0xc7653a76; getattr of an inode of the table replies a symlink
\* with size 0, nlink 1 and perm 0o777; getattr of any other ino replies
\* ESTALE.
C23_GetattrReplies ==
    last.op = "getattr" =>
        IF last.ino = FUSE_ROOT_ID
        THEN /\ last.reply.type = "attr"
             /\ last.reply.attr.kind = "Directory"
             /\ last.reply.attr.perm = 7 * 64 + 5 * 8 + 5
             /\ last.reply.attr.nlink = <<12 * 4096 + 7 * 256 + 6 * 16 + 5,
                                          3 * 4096 + 10 * 256 + 7 * 16 + 6>>
        ELSE IF find(inodes, last.ino).some
        THEN /\ last.reply.type = "attr"
             /\ last.reply.attr.kind = "Symlink"
             /\ last.reply.attr.size = 0
             /\ last.reply.attr.nlink = <<0, 1>>
             /\ last.reply.attr.perm = 7 * 64 + 7 * 8 + 7
        ELSE last.reply = ReplyError("ESTALE")

\* C24: an iteration that has ended, with no update since the call of
\* iter(), has yielded every mapping of the map exactly once and nothing
\* else; every pair that an iteration has yielded, with or without updates
\* beside it, was a mapping of the map at some point.
C24_IterYieldsEveryMappingOnce ==
    \A t \in Workers :
        /\ (session[t].pc = "done" /\ last.op = "iter") =>
              /\ \A k \in DOMAIN content :
                    content[k].some =>
                        \E i \in 1 .. Len(session[t].yielded) :
                            session[t].yielded[i] = <<k, content[k].val>>
              /\ \A i \in 1 .. Len(session[t].yielded) :
                    /\ content[session[t].yielded[i][1]] =
                          Some(session[t].yielded[i][2])
                    /\ \A j \in 1 .. Len(session[t].yielded) :
                          session[t].yielded[j][1] = session[t].yielded[i][1] => j = i
        /\ session[t].pc \in {"entries", "done"} =>
              \A i \in 1 .. Len(session[t].yielded) :
                  /\ session[t].yielded[i][1] \in DOMAIN content
                  /\ session[t].yielded[i][2] \in
                        1 .. inserts_of(content[session[t].yielded[i][1]])

C26_FallbackFlagOnlyForFallbackHit ==
    (last.op = "which" /\ last.ret.some) =>
        (last.ret.val.fallback <=>
            ~\E dir \in DirsOf(last.path_env) :
                 Usable(last.world, dir, last.exe_name))

\* C27: in every state, those between the steps of a forget included, every
\* inode that is found in the table has nlookup >= 1.
C27_NlookupAtLeastOneInTable ==
    \A ino \in Inos :
        find(inodes, ino).some => find(inodes, ino).val.nlookup.value >= 1

\* The step is the insert of a lookup on the inode number
InsertOn(ino) ==
    \E w \in Workers :
        /\ session[w].pc = "lookup_insert"
        /\ session[w].next_number = ino
        /\ session'[w].pc # "lookup_insert"

\* The step is the remove of a forget that brought nlookup of the inode
\* number to zero
RemoveAtZero(ino) ==
    \E w \in Workers :
        /\ session[w].pc = "forget_remove"
        /\ session[w].ino = ino
        /\ session'[w].pc = "idle"
        /\ find(inodes, ino).val.nlookup.value = 0

\* C28: an inode of the table is gone or replaced after a step only if the
\* step is the remove of a forget that brought its nlookup to zero, or a
\* step of destroy.  forget(ino, n) changes nothing if ino is not in the
\* table, leaves the inode in the table with nlookup lower by n if
\* n < nlookup, and fails its assertion, the inode staying in the table,
\* if n > nlookup.
C28_InodeLeavesOnlyAtZero ==
    [][\A ino \in Inos :
          LET before == find(inodes, ino)
              after  == find(inodes', ino)
          IN  /\ (before.some /\ (~after.some \/ InsertOn(ino))) =>
                    RemoveAtZero(ino) \/ last'.op = "destroy"
              /\ (last'.op = "forget" /\ last'.ino = ino) =>
                    IF ~before.some
                    THEN inodes' = inodes /\ session' = session
                    ELSE IF before.val.nlookup.poisoned
                    THEN inodes' = inodes
                    ELSE IF last'.nlookup < before.val.nlookup.value
                    THEN /\ after = Some([before.val EXCEPT !.nlookup.value =
                                             @ - last'.nlookup])
                         /\ session' = session
                    ELSE IF last'.nlookup > before.val.nlookup.value
                    THEN /\ after.some
                         /\ after.val.nlookup.value = before.val.nlookup.value
                         /\ \E w \in Workers :
                               session[w] = Idle /\ session'[w] = Panicked
                    ELSE after.some /\ after.val.nlookup.value = 0]_vars

\* C29: a step that changes the InodeCounter is one allocation: it returns
\* the value next_number had and leaves next_number higher by one, modulo
\* the width of the counter; if the value it read is zero, the counter
\* having wrapped, it leaves next_number at FUSE_ROOT_ID + 1 and generation
\* higher by exactly one; generation changes in no other step; and no
\* worker panics in the step.
C29_AllocationPostIncrements ==
    [][inode_counter' # inode_counter =>
          /\ Len(issued') = Len(issued) + 1
          /\ issued'[Len(issued')][1] = inode_counter.next_number
          /\ issued'[Len(issued')][2] = inode_counter'.generation
          /\ IF inode_counter.next_number = 0
             THEN /\ inode_counter'.next_number = FUSE_ROOT_ID + 1
                  /\ inode_counter'.generation = inode_counter.generation + 1
             ELSE /\ inode_counter'.next_number =
                        (inode_counter.next_number + 1) % InoLimit
                  /\ inode_counter'.generation = inode_counter.generation
          /\ \A w \in Workers : session'[w] = Panicked => session[w] = Panicked
          /\ \E w \in Workers :
                /\ session[w].pc = "idle"
                /\ session'[w].pc = "lookup_insert"
                /\ session'[w].next_number = inode_counter.next_number]_vars

\* The allocation after the wrap has returned, and one more after it.
C29_Witness ==
    /\ Len(issued) >= 3
    /\ issued[Len(issued) - 2][1] = InoLimit - 1
    /\ issued[Len(issued) - 1] = <<0, issued[Len(issued) - 2][2] + 1>>
    /\ issued[Len(issued)] = <<FUSE_ROOT_ID + 1, issued[Len(issued) - 2][2] + 1>>

\* C30: every inode number that a lookup has replied to the kernel, and
\* every inode number found in the table, is greater than FUSE_ROOT_ID,
\* also at and after the wrap of the counter.
C30_InoAboveRoot ==
    /\ \A pair \in replied : pair[1] > FUSE_ROOT_ID
    /\ \A ino \in Inos : find(inodes, ino).some => ino > FUSE_ROOT_ID

\* C31: statfs on the root inode FUSE_ROOT_ID replies ENOENT, whatever the
\* inode table holds.
C31_StatfsOnRootIsENOENT ==
    (last.op = "statfs" /\ last.ino = FUSE_ROOT_ID) =>
        last.reply = ReplyError("ENOENT")

\* The caller is in an execve, and the memory its envp names cannot be
\* read, or the new environment has a PATH and the name is executable in no
\* directory of it.
NewPathFindsNothing(world, name) ==
    /\ world.environ.ok
    /\ InExecve(world)
    /\ \/ ~NewEnviron(world).ok
       \/ /\ PathsOf(NewEnviron(world)) # {}
          /\ \A dir \in PathDirs(NewEnviron(world)) : ~Usable(world, dir, name)

\* C32: a lookup by such a caller, whose /proc/<pid>/environ defines PATH,
\* replies what the search of that PATH followed by the fallback list
\* gives: the first directory of the PATH where the name is executable,
\* else the first such fallback directory, else ENOENT.
C32_ExecveFallsThroughToEnviron ==
    (/\ RootLookup
     /\ NewPathFindsNothing(last.req.world, last.req.name)
     /\ PathsOf(last.req.world.environ) # {})
        => LET world    == last.req.world
               name     == last.req.name
               path_hit == \E dir \in PathDirs(world.environ) : Usable(world, dir, name)
               fb_hit   == \E i \in 1 .. Len(fallback_paths) :
                               Usable(world, fallback_paths[i], name)
           IN  /\ path_hit =>
                     /\ last.reply.type = "entry"
                     /\ \E path \in PathsOf(world.environ) :
                           RepliedInode.path =
                               PathJoin(FirstUsable(world, path, name), name)
               /\ (~path_hit /\ fb_hit) =>
                     /\ last.reply.type = "entry"
                     /\ RepliedInode.path =
                           PathJoin(FirstUsable(world, fallback_paths, name), name)
               /\ (~path_hit /\ ~fb_hit) => last.reply = ReplyError("ENOENT")

\* The search of the new PATH has found nothing and the lookup has replied
\* the executable of the PATH of /proc/<pid>/environ.
C32_Witness ==
    /\ RootLookup
    /\ NewPathFindsNothing(last.req.world, last.req.name)
    /\ NewEnviron(last.req.world).ok
    /\ last.reply.type = "entry"
    /\ RepliedInode.path \in
          {PathJoin(dir, last.req.name) : dir \in PathDirs(last.req.world.environ)}

\* C33: a lookup by a caller whose syscall file reads "running" and reads
\* as the line of an allowed syscall when it is opened again, for a name
\* that is executable on the caller's PATH, replies an entry.
C33_RunningIsReadAgain ==
    (/\ RootLookup
     /\ "later" \in DOMAIN last.req.world.syscall
     /\ last.req.world.syscall.later \in
           {Ok(SyscallLine(SYS_openat)), Ok(SyscallLine(SYS_execve))}
     /\ \E dir \in PathDirs(last.req.world.environ) :
           Usable(last.req.world, dir, last.req.name))
        => last.reply.type = "entry"

\* C34: a worker that is inside resolve_target, in lookup or in the branch
\* of readlink for another PID, holds no partition lock, not the lock of
\* the InodeCounter and no nlookup lock.
C34_NoLockHeldWhileResolving ==
    \A w \in Workers : session[w].pc = "resolve" => Held(w) = {}

\* A worker is inside resolve_target for a readlink, after its find, while
\* another worker holds a lock.
C34_Witness ==
    \E w, u \in Workers :
        /\ session[w].pc = "resolve"
        /\ session[w].op = "readlink"
        /\ Held(w) = {}
        /\ Held(u) # {}

\* The locks that the next step of a worker takes
Needs(w) ==
    LET l == session[w]
    IN  IF l.pc = "counter" THEN {CounterLock}
        ELSE IF l.pc = "insert" THEN {TableLock(table_of(inodes, l.next_number))}
        ELSE IF l.pc = "forget_found" THEN {NlookupLock(l.ino)}
        ELSE IF l.pc = "forget_remove" THEN {TableLock(table_of(inodes, l.ino))}
        ELSE IF l.pc = "destroy" THEN {TableLock(clear_lock(inodes, l.table))}
        ELSE {}

\* The worker cannot take its next step: a lock it needs is held
Blocked(w) == \E l \in Needs(w) : locks[l] # NoThread

\* The worker is inside a handler
InHandler(w) == session[w].pc \notin {"idle", "panicked", "destroyed"}

\* A step of the worker
StepOf(w) ==
    \/ LookupResolved(w) \/ CounterWrite(w) \/ CounterDrop(w)
    \/ LookupInsertLock(w) \/ LookupInsertPut(w) \/ InodeClone(w)
    \/ ReadlinkResolved(w) \/ ForgetWrite(w) \/ ForgetDecrement(w)
    \/ ForgetRemoveLock(w) \/ ForgetRemoveKey(w) \/ DestroyLock(w)
    \/ DestroyClear(w)

\* C35: a worker takes an nlookup lock only while it holds the partition
\* lock of the inode, and takes a partition lock only while it holds no
\* lock; the holder of the InodeCounter lock holds no other lock; no worker
\* holds two partition locks; and there is no deadlock: a worker inside a
\* handler can take its next step unless a lock it needs is held by another
\* worker, and that worker can take its next step.
C35_LockOrderAndNoDeadlock ==
    \A w \in Workers :
        /\ \A ino \in Inos :
              (locks[NlookupLock(ino)] = w \/ NlookupLock(ino) \in Needs(w)) =>
                  locks[TableLock(table_of(inodes, ino))] = w
        /\ (\E p \in DOMAIN inodes.tables : TableLock(p) \in Needs(w)) => Held(w) = {}
        /\ (locks[CounterLock] = w \/ CounterLock \in Needs(w)) =>
              Held(w) \subseteq {CounterLock}
        /\ Cardinality({p \in DOMAIN inodes.tables : locks[TableLock(p)] = w}) <= 1
        /\ (InHandler(w) /\ ~Blocked(w)) => ENABLED StepOf(w)
        /\ Blocked(w) =>
              \A l \in Needs(w) :
                  locks[l] # NoThread => (locks[l] # w /\ ~Blocked(locks[l]))

\* A worker holds a partition lock and the nlookup lock of an inode in it
\* while the other worker waits for that partition lock.
C35_Witness ==
    \E w, u \in Workers, ino \in Inos :
        /\ locks[NlookupLock(ino)] = w
        /\ locks[TableLock(table_of(inodes, ino))] = w
        /\ TableLock(table_of(inodes, ino)) \in Needs(u)
        /\ Blocked(u)

\* C36: the thread that iterates holds the lock of at most one partition
\* in every state, also inside next_table.
C36_IterHoldsOneLock ==
    Cardinality({p \in DOMAIN locks : locks[p] = 1}) <= 1

\* The present buckets of a table
PresentSlots(t) == {i \in 0 .. t.capacity - 1 : is_present(t, i)}

\* C37: in every partition, after any calls of insert, remove and clear,
\* with the resizes they make, no two present buckets hold the same key, and
\* len is the number of present buckets.
C37_OneSlotPerKeyAndLenCounts ==
    \A p \in DOMAIN inodes.tables :
        LET t == inodes.tables[p]
        IN  /\ \A i, j \in PresentSlots(t) : t.keys[i] = t.keys[j] => i = j
            /\ t.len = Cardinality(PresentSlots(t))

\* C38: every lookup visits at most capacity buckets of the key's table,
\* every run of the inner loop of put visits at most capacity buckets, and
\* every put ends with its entry placed after the resizes it made.
C38_ProbesEndAndPutPlaces ==
    /\ last.op = "lookup" => last.steps <= last.capacity
    /\ last.op = "put" => (last.within /\ last.placed)

\* /proc/<pid>/environ is read and no record of it defines PATH
NoPathInEnviron(world) == world.environ.ok /\ PathsOf(world.environ) = {}

\* The caller is in an execve whose new environment is read and has no
\* record of the key PATH
NoPathInNewEnviron(world) ==
    /\ world.environ.ok
    /\ InExecve(world)
    /\ NewEnviron(world).ok
    /\ \A i \in 1 .. Len(NewEnviron(world).val) : NewEnviron(world).val[i].key # "PATH"

\* The caller is in an execve and the name is executable in a directory of
\* the PATH of the new environment
NewPathFinds(world, name) ==
    /\ InExecve(world)
    /\ NewEnviron(world).ok
    /\ \E dir \in PathDirs(NewEnviron(world)) : Usable(world, dir, name)

ReadOnlyEvent(e) ==
    \/ e.op \in {"getattr", "readlink", "statfs", "readdir", "getxattr"}
    \/ e.op = "lookup" /\ e.reply = ReplyError("ENOENT")

\* C40: a step of getattr, readlink, statfs, readdir or getxattr, or of a
\* lookup that replies ENOENT, leaves the inode counter and the inode table
\* as they were; a step that changes either is one of a lookup that
\* resolved, of forget or of destroy.
C40_ReadOnlyHandlersKeepTableAndCounter ==
    [][ /\ ReadOnlyEvent(last') =>
              (inode_counter' = inode_counter /\ inodes' = inodes)
        /\ (inode_counter' # inode_counter \/ inodes' # inodes) =>
              \/ last'.op \in {"step", "forget", "forget_remove", "destroy"}
              \/ last'.op = "lookup" /\ last'.reply # ReplyError("ENOENT")
      ]_vars

\* A lookup in the root whose name did not resolve has replied ENOENT while
\* the table holds an inode and the counter has issued numbers.
C40_Witness ==
    /\ RootLookup
    /\ last.reply = ReplyError("ENOENT")
    /\ inode_counter # InodeCounter_new
    /\ \E ino \in Inos : find(inodes, ino).some

====
